---- MODULE Spec2Model ----
(***************************************************************************)
(* Policy gap analysis tool: the compliance scorer, the executive summary  *)
(* and the exporters (src/src/utils.py), the document loader               *)
(* (src/src/document_loader.py), the model collaborator                    *)
(* (src/src/llm_judge.py) and the orchestration pipeline (src/main.py).    *)
(*                                                                         *)
(* A Python str is modelled as a sequence of pieces, each piece a string:  *)
(* a text read from a document or answered by the model is a sequence of   *)
(* one-character strings, a literal of the code is one piece.  LongS       *)
(* stands for the single character U+017F.                                 *)
(***************************************************************************)
EXTENDS Integers, Sequences, FiniteSets, TLC

VARIABLES
    gap_analysis_text,  \* scorer: the argument of calculate_score
    score_data,         \* scorer: the dictionary calculate_score returned, or None
    prev_data,          \* scorer: the dictionary returned for the text scored before
    recased_from,       \* scorer: the text the current one is a case variant of, or None
    exec_summary,       \* summary: what ExecutiveSummary.generate returned, or None
    prev_summary,       \* summary: what the call before the last one returned, or None
    today,              \* the date datetime.now() gives
    args,               \* pipeline: the parsed command line, or None before main
    config,             \* pipeline: the attributes of the config module main assigns
    pc,                 \* pipeline: position of the run
    mode,               \* pipeline: "interactive" or "batch"
    user_policy_text,   \* pipeline: result of extract_text for the policy
    reference_text,     \* pipeline: result of extract_text for the reference
    judge,              \* pipeline: self.judge
    results,            \* pipeline: self.results
    exported,           \* pipeline: the export_data handed to the exporters, or None
    stages,             \* pipeline: the stages performed so far, in order
    reported,           \* the error lines printed on the console, in order
    llm_requests,       \* pipeline: number of chain.invoke calls made
    last_call,          \* pipeline: the last call of the judge and what it gave
    prompted,           \* pipeline: the questions of Prompt.ask asked so far, in order
    reports,            \* pipeline: what _export_complete_report wrote, or None
    caller_results,     \* exporter: the dictionary the caller passes as results
    export_call,        \* exporter: the last export call, its arguments and console line
    output_file,        \* exporter: content of the file at that call's output_path
    prev_export,        \* exporter: the call made before the last one, and its file
    files,              \* loader: the paths that exist
    load_call,          \* loader: the last extract_text call and what it gave, or None
    raw_text,           \* loader: a raw text given to _clean_text
    cleaned_text,       \* loader: what _clean_text returned for raw_text, or None
    recleaned_text      \* loader: what _clean_text returned for cleaned_text, or None

scorerVars == <<gap_analysis_text, score_data, prev_data, recased_from, exec_summary,
                prev_summary>>
pipeVars == <<args, config, pc, mode, user_policy_text, reference_text, judge, results,
              exported, stages, llm_requests, last_call, prompted, reports>>
exportVars == <<caller_results, export_call, output_file, prev_export>>
loaderVars == <<files, load_call, raw_text, cleaned_text, recleaned_text>>
allButLoaderVars == <<scorerVars, pipeVars, exportVars>>
vars == <<gap_analysis_text, score_data, prev_data, recased_from, exec_summary,
          prev_summary, today,
          args, config, pc, mode, user_policy_text, reference_text, judge, results,
          exported, stages, reported, llm_requests, last_call, prompted, reports,
          caller_results, export_call, output_file, prev_export,
          files, load_call, raw_text, cleaned_text, recleaned_text>>

\* an Optional value: None, or Some(x) holding x (read back as v[1])
None == <<>>

Some(x) == <<x>>

(***************************************************************************)
(* Characters and Python's str.lower / str.upper                           *)
(***************************************************************************)
\* U+017F LATIN SMALL LETTER LONG S: str.lower leaves it, str.upper gives "S"
LongS == "U+017F"

\* the ASCII letters, <<upper, lower>>
CasePairs ==
    { <<"A","a">>, <<"B","b">>, <<"C","c">>, <<"D","d">>, <<"E","e">>, <<"F","f">>,
      <<"G","g">>, <<"H","h">>, <<"I","i">>, <<"J","j">>, <<"K","k">>, <<"L","l">>,
      <<"M","m">>, <<"N","n">>, <<"O","o">>, <<"P","p">>, <<"Q","q">>, <<"R","r">>,
      <<"S","s">>, <<"T","t">>, <<"U","u">>, <<"V","v">>, <<"W","w">>, <<"X","x">>,
      <<"Y","y">>, <<"Z","z">> }

\* str.lower on one character
lower_char(c) ==
    IF \E p \in CasePairs : p[1] = c
    THEN (CHOOSE p \in CasePairs : p[1] = c)[2]
    ELSE c

\* str.upper on one character
upper_char(c) ==
    IF c = LongS THEN "S"
    ELSE IF \E p \in CasePairs : p[2] = c
         THEN (CHOOSE p \in CasePairs : p[2] = c)[1]
         ELSE c

\* mutant of lower: the text is matched as it is, never lower-cased
lower_skipped(s) == s

\* str.lower()
lower(s) == <<>> \o [i \in 1..Len(s) |-> lower_char(s[i])]

\* str.upper()
upper(s) == <<>> \o [i \in 1..Len(s) |-> upper_char(s[i])]

(***************************************************************************)
(* ComplianceScorer.calculate_score                                        *)
(***************************************************************************)
\* mutant of critical_keywords: 'missing' is not in the list
critical_keywords_without_missing ==
    << <<"c","r","i","t","i","c","a","l">>,
       <<"s","e","v","e","r","e">>,
       <<"u","r","g","e","n","t">>,
       <<"a","b","s","e","n","t">>,
       <<"m","a","n","d","a","t","o","r","y">> >>

critical_keywords ==
    << <<"c","r","i","t","i","c","a","l">>,
       <<"s","e","v","e","r","e">>,
       <<"u","r","g","e","n","t">>,
       <<"m","i","s","s","i","n","g">>,
       <<"a","b","s","e","n","t">>,
       <<"m","a","n","d","a","t","o","r","y">> >>

high_keywords ==
    << <<"h","i","g","h"," ","r","i","s","k">>,
       <<"s","i","g","n","i","f","i","c","a","n","t">>,
       <<"i","m","p","o","r","t","a","n","t">>,
       <<"r","e","q","u","i","r","e","d">> >>

medium_keywords ==
    << <<"m","e","d","i","u","m">>,
       <<"m","o","d","e","r","a","t","e">>,
       <<"s","h","o","u","l","d">>,
       <<"r","e","c","o","m","m","e","n","d","e","d">> >>

low_keywords ==
    << <<"l","o","w">>,
       <<"m","i","n","o","r">>,
       <<"o","p","t","i","o","n","a","l">>,
       <<"s","u","g","g","e","s","t","e","d">> >>

\* whether kw occurs in s at position i (1-based)
occurs_at(s, kw, i) ==
    /\ i >= 1
    /\ i + Len(kw) - 1 <= Len(s)
    /\ s[i] = kw[1]
    /\ \A k \in 1..Len(kw) : s[i + k - 1] = kw[k]

\* mutant of str_find: a marker cut short by the end of the text still matches
str_find_past_end(s, kw, i) ==
    LET found == { j \in i..Len(s) :
                     \A k \in 1..Len(kw) : j + k - 1 > Len(s) \/ s[j + k - 1] = kw[k] }
    IN  IF found = {} THEN 0
        ELSE CHOOSE j \in found : \A k \in found : j <= k

\* str.find(kw, start): the first position >= i where kw occurs in s, 0 if none
str_find(s, kw, i) ==
    LET found == { j \in i..(Len(s) - Len(kw) + 1) : occurs_at(s, kw, j) }
    IN  IF found = {} THEN 0
        ELSE CHOOSE j \in found : \A k \in found : j <= k

\* str.count(kw) for a non-empty kw: occurrences found scanning left to right,
\* the scan resuming after the end of each occurrence found
RECURSIVE count_from(_, _, _)
count_from(s, kw, i) ==
    LET j == str_find(s, kw, i)
    IN  IF j = 0 THEN 0 ELSE 1 + count_from(s, kw, j + Len(kw))

\* mutant of str_count: every position where kw occurs is counted
str_count_overlapping(s, kw) ==
    Cardinality({ j \in 1..(Len(s) - Len(kw) + 1) : occurs_at(s, kw, j) })

str_count(s, kw) == count_from(s, kw, 1)

\* sum(text_lower.count(kw) for kw in keywords)
RECURSIVE sum_counts(_, _, _)
sum_counts(text_lower, keywords, k) ==
    IF k > Len(keywords) THEN 0
    ELSE str_count(text_lower, keywords[k]) + sum_counts(text_lower, keywords, k + 1)

bucket_count(text_lower, keywords) == sum_counts(text_lower, keywords, 1)

\* str(n) for an integer n, as an f-string formats it
Digit(d) == <<"0","1","2","3","4","5","6","7","8","9">>[d + 1]

RECURSIVE nat_str(_)
nat_str(n) == IF n < 10 THEN Digit(n) ELSE nat_str(n \div 10) \o Digit(n % 10)

int_str(n) == IF n < 0 THEN "-" \o nat_str(-n) ELSE nat_str(n)

max(a, b) == IF a >= b THEN a ELSE b

\* mutant of _get_risk_level: the first threshold is exclusive
_get_risk_level_exclusive(score) ==
    IF score > 90 THEN "Very Low"
    ELSE IF score >= 80 THEN "Low"
    ELSE IF score >= 70 THEN "Moderate"
    ELSE IF score >= 60 THEN "High"
    ELSE "Critical"

_get_risk_level(score) ==
    IF score >= 90 THEN "Very Low"
    ELSE IF score >= 80 THEN "Low"
    ELSE IF score >= 70 THEN "Moderate"
    ELSE IF score >= 60 THEN "High"
    ELSE "Critical"

\* mutant of compliance_score_of: the weights of high and medium are exchanged
compliance_score_swapped_weights(critical_count, high_count, medium_count, low_count) ==
    LET total_issues == critical_count + high_count + medium_count + low_count
        deduction == critical_count * 10 + high_count * 2 + medium_count * 5 + low_count * 1
    IN  IF total_issues = 0 THEN 100 ELSE max(0, 100 - deduction)

\* mutant of compliance_score_of: the score is not clamped at 0
compliance_score_unclamped(critical_count, high_count, medium_count, low_count) ==
    LET total_issues == critical_count + high_count + medium_count + low_count
        deduction == critical_count * 10 + high_count * 5 + medium_count * 2 + low_count * 1
    IN  IF total_issues = 0 THEN 100 ELSE 100 - deduction

\* mutant of compliance_score_of: the deduction is returned in place of the score
compliance_score_as_deduction(critical_count, high_count, medium_count, low_count) ==
    LET total_issues == critical_count + high_count + medium_count + low_count
        deduction == critical_count * 10 + high_count * 5 + medium_count * 2 + low_count * 1
    IN  IF total_issues = 0 THEN 100 ELSE max(0, deduction)

\* the weighted deduction and the score, from the four counts
compliance_score_of(critical_count, high_count, medium_count, low_count) ==
    LET total_issues == critical_count + high_count + medium_count + low_count
        deduction == critical_count * 10 + high_count * 5 + medium_count * 2 + low_count * 1
    IN  IF total_issues = 0 THEN 100 ELSE max(0, 100 - deduction)

\* mutant of total_issues_of: the low bucket is left out of the total
total_issues_without_low(critical_count, high_count, medium_count, low_count) ==
    critical_count + high_count + medium_count

total_issues_of(critical_count, high_count, medium_count, low_count) ==
    critical_count + high_count + medium_count + low_count

calculate_score(text) ==
    LET text_lower == lower(text)
        critical_count == bucket_count(text_lower, critical_keywords)
        high_count == bucket_count(text_lower, high_keywords)
        medium_count == bucket_count(text_lower, medium_keywords)
        low_count == bucket_count(text_lower, low_keywords)
        compliance_score ==
            compliance_score_of(critical_count, high_count, medium_count, low_count)
    IN  [ compliance_score |-> compliance_score,
          compliance_percentage |-> int_str(compliance_score) \o "%",
          total_gaps |-> total_issues_of(critical_count, high_count, medium_count, low_count),
          breakdown |-> [ critical |-> critical_count, high |-> high_count,
                          medium |-> medium_count, low |-> low_count ],
          risk_level |-> _get_risk_level(compliance_score) ]

(***************************************************************************)
(* Input texts of the scorer                                               *)
(***************************************************************************)
\* the sample analysis of test_compliance_scorer
SampleText ==
    <<"C","r","i","t","i","c","a","l"," ","g","a","p",":"," ","M","i","s","s","i","n","g"," ","M","F","A","."," ","H","i","g","h"," ","r","i","s","k",":"," ","W","e","a","k"," ","p","a","s","s","w","o","r","d","s","."," ","M","e","d","i","u","m",":"," ","T","r","a","i","n","i","n","g"," ","n","e","e","d","e","d",".">>

\* "critical" inside a longer word, capitalised: deduction 10
FragCriticality ==
    <<"C","r","i","t","i","c","a","l","i","t","y">>

\* upper-case marker and a low marker: deduction 11
FragMissingLow ==
    <<"M","I","S","S","I","N","G"," ","l","o","w">>

\* one critical, three high, two medium and one low marker: deduction 30
FragThirty ==
    <<"u","r","g","e","n","t"," ","s","i","g","n","i","f","i","c","a","n","t"," ","i","m","p","o","r","t","a","n","t"," ","r","e","q","u","i","r","e","d"," ","s","h","o","u","l","d"," ","r","e","c","o","m","m","e","n","d","e","d"," ","o","p","t","i","o","n","a","l">>

\* the six critical markers run together: deduction 60
FragSixty ==
    <<"c","r","i","t","i","c","a","l","s","e","v","e","r","e","u","r","g","e","n","t","m","i","s","s","i","n","g","a","b","s","e","n","t","m","a","n","d","a","t","o","r","y">>

\* two occurrences of "medium" sharing the letter m
FragMediumedium ==
    <<"m","e","d","i","u","m","e","d","i","u","m">>

\* no marker: "high" alone is not "high risk"
FragHigh ==
    <<"h","i","g","h">>

\* "severe" spelt with U+017F, whose upper case is "S", then "low" inside a
\* longer word: deduction 1
FragLongS ==
    <<LongS,"e","v","e","r","e"," ","s","l","o","w">>

Fragments ==
    { FragCriticality, FragMissingLow, FragThirty, FragSixty,
      FragMediumedium, FragHigh, FragLongS }

\* the number of fragments an input text is made of, at most
MaxFrags == 2

RECURSIVE TextsOf(_)
TextsOf(n) ==
    IF n = 0 THEN { <<>> }
    ELSE LET shorter == TextsOf(n - 1)
         IN  shorter \cup { t \o f : t \in shorter, f \in Fragments }

Texts == TextsOf(MaxFrags) \cup { SampleText }

(***************************************************************************)
(* DocumentLoader (src/src/document_loader.py)                             *)
(***************************************************************************)
\* the characters str.strip() removes from the two ends of a line
Whitespace == { " ", "\t", "\r", "\f" }

\* text.split('\n'): the lines between the newlines, empty ones included
split_lines(text) ==
    LET newlines == { i \in 1..Len(text) : text[i] = "\n" }
        nth(k) == CHOOSE i \in newlines : Cardinality({ m \in newlines : m < i }) = k - 1
        cut(k) == IF k = 0 THEN 0
                  ELSE IF k = Cardinality(newlines) + 1 THEN Len(text) + 1
                  ELSE nth(k)
    IN  <<>> \o [k \in 1..(Cardinality(newlines) + 1) |->
                    SubSeq(text, cut(k - 1) + 1, cut(k) - 1)]

\* line.strip()
strip(line) ==
    LET kept == { i \in 1..Len(line) : line[i] \notin Whitespace }
    IN  IF kept = {} THEN <<>>
        ELSE SubSeq(line, CHOOSE i \in kept : \A j \in kept : i <= j,
                          CHOOSE i \in kept : \A j \in kept : i >= j)

\* sep.join(lines)
RECURSIVE join_lines(_, _)
join_lines(lines, sep) ==
    IF lines = <<>> THEN <<>>
    ELSE IF Len(lines) = 1 THEN lines[1]
    ELSE lines[1] \o sep \o join_lines(Tail(lines), sep)

RECURSIVE cleaned_lines_keeping_blanks(_, _)
cleaned_lines_keeping_blanks(lines, prev_blank) ==
    IF lines = <<>> THEN <<>>
    ELSE <<strip(lines[1])>> \o cleaned_lines_keeping_blanks(Tail(lines), prev_blank)

RECURSIVE cleaned_lines_testing_unstripped(_, _)
cleaned_lines_testing_unstripped(lines, prev_blank) ==
    IF lines = <<>> THEN <<>>
    ELSE IF lines[1] # <<>>
    THEN <<strip(lines[1])>> \o cleaned_lines_testing_unstripped(Tail(lines), FALSE)
    ELSE IF ~prev_blank
    THEN << <<>> >> \o cleaned_lines_testing_unstripped(Tail(lines), TRUE)
    ELSE cleaned_lines_testing_unstripped(Tail(lines), prev_blank)

\* _clean_text: the loop over the lines, from the value of prev_blank
RECURSIVE cleaned_lines(_, _)
cleaned_lines(lines, prev_blank) ==
    IF lines = <<>> THEN <<>>
    ELSE LET line == strip(lines[1])
         IN  IF line # <<>>
             THEN <<line>> \o cleaned_lines(Tail(lines), FALSE)
             ELSE IF ~prev_blank
             THEN << <<>> >> \o cleaned_lines(Tail(lines), TRUE)
             ELSE cleaned_lines(Tail(lines), prev_blank)

\* DocumentLoader._clean_text
_clean_text(text) ==
    join_lines(cleaned_lines(split_lines(text), FALSE), <<"\n">>)

\* the directories of config and the working directory, and one more
INPUT_DIR == "data/input"
REFERENCE_DIR == "data/reference"
cwd == "."
Dirs == { INPUT_DIR, REFERENCE_DIR, cwd, "elsewhere" }

\* file names: final path components
Names ==
    { <<"p",".","m","d">>, <<"p",".","P","D","F">>, <<"p",".","T","x","t">>,
      <<"p",".","m","a","r","k","d","o","w","n">>, <<"p",".","d","o","c","x">>,
      <<".","m","d">> }

\* a path: a directory and a final name component; a relative path is one of
\* the working directory
Paths == [dir : Dirs, name : Names]

MaxFiles == 2

\* the files that exist
FileSystems == { fs \in SUBSET Paths : Cardinality(fs) <= MaxFiles }

\* DocumentLoader.__init__ as PolicyAnalysisPipeline.__init__ calls it
DocumentLoader == [verbose |-> TRUE, search_dirs |-> <<INPUT_DIR, REFERENCE_DIR, cwd>>]

\* Path.suffix of a final name component
suffix_of(name) ==
    LET dots == { i \in 1..Len(name) : name[i] = "." }
        i == IF dots = {} THEN 0 ELSE CHOOSE d \in dots : \A e \in dots : d >= e
    IN  IF 1 < i /\ i < Len(name) THEN SubSeq(name, i, Len(name)) ELSE <<>>

\* DocumentLoader._resolve_path
_resolve_path(self, fs, file_path) ==
    LET candidate(i) == [dir |-> self.search_dirs[i], name |-> file_path.name]
        found == { i \in 1..Len(self.search_dirs) : candidate(i) \in fs }
    IN  IF file_path \in fs THEN Some(file_path)
        ELSE IF found # {}
        THEN Some(candidate(CHOOSE i \in found : \A j \in found : i <= j))
        ELSE None

\* how reading a resolved file can end: the text read, the text read as
\* latin-1 after a UnicodeDecodeError, or another exception
ReadOutcomes ==
    { [error |-> "", text |-> <<" ","a"," ","\n","\n","\n","b">>],
      [error |-> "", text |-> <<" ","\n"," ">>],
      [error |-> "UnicodeDecodeError", text |-> <<"a","\n">>],
      [error |-> "OSError", text |-> <<>>] }

\* DocumentLoader._extract_pdf
_extract_pdf(self, read) ==
    IF read.error # ""
    THEN [printed |-> <<"Error extracting PDF">>, returned |-> None]
    ELSE [printed |-> <<>>, returned |-> Some(_clean_text(read.text))]

\* DocumentLoader._extract_text_file
_extract_text_file(self, read) ==
    IF read.error \in {"", "UnicodeDecodeError"}
    THEN [printed |-> <<>>, returned |-> Some(_clean_text(read.text))]
    ELSE [printed |-> <<"Error reading text file">>, returned |-> None]

is_supported_case_sensitive(suffix) ==
    suffix \in { <<".","p","d","f">>, <<".","t","x","t">>, <<".","m","d">>,
                 <<".","m","a","r","k","d","o","w","n">> }

\* extract_text: the suffix routes to an extractor
is_supported(suffix) ==
    lower(suffix) \in { <<".","p","d","f">>, <<".","t","x","t">>, <<".","m","d">>,
                        <<".","m","a","r","k","d","o","w","n">> }

\* DocumentLoader.extract_text
extract_text(self, fs, file_path, read) ==
    LET resolved_path == _resolve_path(self, fs, file_path)
        suffix == lower(suffix_of(resolved_path[1].name))
        extracted == IF suffix = <<".","p","d","f">>
                     THEN _extract_pdf(self, read)
                     ELSE _extract_text_file(self, read)
    IN  IF resolved_path = None
        THEN [path |-> file_path, resolved |-> None, suffix |-> None,
              printed |-> <<"Error: File not found", "Searched in">>,
              returned |-> None]
        ELSE IF is_supported(suffix_of(resolved_path[1].name))
        THEN [path |-> file_path, resolved |-> resolved_path, suffix |-> Some(suffix),
              printed |-> extracted.printed, returned |-> extracted.returned]
        ELSE [path |-> file_path, resolved |-> resolved_path, suffix |-> Some(suffix),
              printed |-> <<"Error: Unsupported file format", "Supported formats">>,
              returned |-> None]

\* raw texts: every text over four characters up to a length
RawAlphabet == { "a", "b", " ", "\n" }

MaxRawLen == 6

RawTexts == UNION { [1..n -> RawAlphabet] : n \in 0..MaxRawLen }

LoaderIdle ==
    /\ files = {}
    /\ load_call = None
    /\ raw_text = <<>>
    /\ cleaned_text = None
    /\ recleaned_text = None

(***************************************************************************)
(* PolicyAnalysisPipeline (src/main.py)                                    *)
(*                                                                         *)
(* A dict is a function from its keys; the collaborators outside the       *)
(* repository (file system, PyMuPDF, Ollama, the user at the prompt)       *)
(* answer nondeterministically.                                            *)
(***************************************************************************)
EmptyDict == <<>>

\* d[k] = v on a dict
dict_set(d, k, v) ==
    [x \in (DOMAIN d) \cup {k} |-> IF x = k THEN v ELSE d[x]]

\* config.REFERENCE_FRAMEWORK, config.OLLAMA_MODEL as config.py assigns them
REFERENCE_FRAMEWORK == "CIS MS-ISAC NIST Cybersecurity Framework"

OLLAMA_MODEL == "llama3.2:3b"

\* the values of --model on the command line: None when the flag is absent
ModelFlags == { None, Some("mistral"), Some("") }

\* the dates datetime.now() can give
Dates ==
    { [year |-> 2026, month |-> 11, day |-> 1],
      [year |-> 2026, month |-> 12, day |-> 25] }

MonthName(month) ==
    << "January", "February", "March", "April", "May", "June", "July",
       "August", "September", "October", "November", "December" >>[month]

\* a number zero-padded to two digits, as %d and %m print it
two_digits(n) == IF n < 10 THEN "0" \o int_str(n) ELSE int_str(n)

\* datetime.now().strftime('%B %d, %Y')
strftime_B_d_Y(date) ==
    MonthName(date.month) \o " " \o two_digits(date.day) \o ", " \o int_str(date.year)

\* datetime.now().isoformat(), to the day
isoformat(date) ==
    int_str(date.year) \o "-" \o two_digits(date.month) \o "-" \o two_digits(date.day)

\* the document a run asks for, and how reading it can end: a policy text, a
\* text of whitespace only, or an exception
DocumentPath == [dir |-> INPUT_DIR, name |-> <<"p",".","m","d">>]

DocumentReads ==
    { [error |-> "", text |-> <<" ","p","o","l","i","c","y">>],
      [error |-> "", text |-> <<" ","\n","\t">>],
      [error |-> "OSError", text |-> <<>>] }

\* what DocumentLoader.extract_text can return: None, or the cleaned text,
\* which may be empty
ExtractOutcomes ==
    { extract_text(DocumentLoader, fs, DocumentPath, read).returned :
         fs \in { {}, {DocumentPath} }, read \in DocumentReads }

\* what chain.invoke can answer to the gap analysis prompt: the response text
AnalysisTexts == { FragHigh, FragCriticality, SampleText }

\* what chain.invoke can answer to the remediation prompt
RemediationTexts == { <<"f","i","x">> }

\* how a chain.invoke can end: it raises, or it returns a response that has
\* a 'text' entry or has none
InvokeOutcomes(texts) ==
    { [raises |-> e, response |-> None] : e \in {"ConnectionError", "Timeout", ""} }
      \cup { [raises |-> "", response |-> Some(t)] : t \in texts }

falsy_only_when_empty(text) == text # None /\ text[1] = <<>>

falsy_only_none(text) == text = None

\* `not text` for an Optional[str]
falsy(text) == text = None \/ text[1] = <<>>

\* `kw in text` for two strs
str_contains(text, kw) == str_find(text, kw, 1) # 0

assessment_always_moderate(score) ==
    "Your organization's cybersecurity policy shows moderate compliance but requires significant improvements."

\* ExecutiveSummary.generate: the overall assessment chosen from the score
assessment_of(score) ==
    IF score >= 80
    THEN "Your organization's cybersecurity policy demonstrates strong compliance with industry standards."
    ELSE IF score >= 60
    THEN "Your organization's cybersecurity policy shows moderate compliance but requires significant improvements."
    ELSE "Your organization's cybersecurity policy has critical gaps that expose you to substantial security risks."

recommendations_without_extra(gap_analysis) ==
    << "Please refer to the detailed gap analysis and remediation plan for specific actions.\n\n" >>

\* ExecutiveSummary.generate: the recommendations paragraph
recommendations_of(gap_analysis) ==
    LET gap_lower == lower(gap_analysis)
    IN  (IF \/ str_contains(gap_lower, <<"t","o","p"," ","5">>)
            \/ str_contains(gap_lower, <<"p","r","i","o","r","i","t","y">>)
         THEN << "Critical gaps requiring immediate attention have been identified. " >>
         ELSE << >>)
        \o << "Please refer to the detailed gap analysis and remediation plan for specific actions.\n\n" >>

timeline_with_every_line(breakdown) ==
    << "- **Immediate (0-30 days):** Address critical security gaps\n",
       "- **Short-term (1-3 months):** Implement high-priority improvements\n",
       "- **Medium-term (3-6 months):** Complete medium-priority enhancements\n",
       "- **Long-term (6-12 months):** Continuous improvement and monitoring\n\n" >>

\* ExecutiveSummary.generate: the lines of the timeline block
timeline_of(breakdown) ==
    (IF breakdown.critical > 0
     THEN << "- **Immediate (0-30 days):** Address critical security gaps\n" >>
     ELSE << >>)
    \o (IF breakdown.high > 0
        THEN << "- **Short-term (1-3 months):** Implement high-priority improvements\n" >>
        ELSE << >>)
    \o (IF breakdown.medium > 0
        THEN << "- **Medium-term (3-6 months):** Complete medium-priority enhancements\n" >>
        ELSE << >>)
    \o << "- **Long-term (6-12 months):** Continuous improvement and monitoring\n\n" >>

\* ExecutiveSummary.generate: the returned str, as its pieces
ExecutiveSummary_generate(gap_analysis, compliance_score) ==
    LET score == compliance_score.compliance_score
        breakdown == compliance_score.breakdown
    IN  << "# EXECUTIVE SUMMARY\n",
           "**Date:** ", strftime_B_d_Y(today), "\n\n",
           "## Overall Assessment\n\n", assessment_of(score), "\n\n",
           "## Key Metrics\n\n",
           "- **Compliance Score:** ", compliance_score.compliance_percentage, "\n",
           "- **Risk Level:** ", compliance_score.risk_level, "\n",
           "- **Total Gaps Identified:** ", int_str(compliance_score.total_gaps), "\n",
           "- **Critical Issues:** ", int_str(breakdown.critical), "\n\n",
           "## Priority Recommendations\n\n" >>
        \o recommendations_of(gap_analysis)
        \o << "## Recommended Timeline\n\n" >>
        \o timeline_of(breakdown)

\* the defaults of PolicyJudge.__init__, evaluated once when llm_judge is
\* imported, which main.py does before main runs
PolicyJudge_defaults == [model_name |-> OLLAMA_MODEL]

\* PolicyJudge(verbose=config.VERBOSE): model_name takes its default
PolicyJudge == [model_name |-> PolicyJudge_defaults.model_name]

\* PolicyJudge.analyze_gaps when chain.invoke answered analysis_text
analyze_gaps_result(model_name, analysis_text) ==
    [ framework |-> REFERENCE_FRAMEWORK,
      analysis |-> analysis_text,
      model_used |-> model_name ]

\* PolicyJudge.generate_remediation when chain.invoke answered remediation_text
generate_remediation_result(model_name, remediation_text) ==
    [ framework |-> REFERENCE_FRAMEWORK,
      remediation |-> remediation_text,
      model_used |-> model_name ]

\* response['text'] cannot be read
invoke_failed(invoked) == invoked.raises # "" \/ invoked.response = None

analyze_gaps_retrying(self, invoked) ==
    [ method |-> "analyze_gaps",
      invoked |-> invoked,
      requests |-> IF invoke_failed(invoked) THEN 2 ELSE 1,
      raised |-> FALSE,
      printed |-> IF invoke_failed(invoked)
                  THEN << "Error during gap analysis" >> ELSE << >>,
      returned |-> IF invoke_failed(invoked) THEN None
                   ELSE Some(analyze_gaps_result(self.model_name, invoked.response[1])) ]

\* PolicyJudge.analyze_gaps, its one chain.invoke ending as invoked: the
\* requests made, whether an exception leaves the call, the error lines
\* printed and the value returned
analyze_gaps(self, invoked) ==
    [ method |-> "analyze_gaps",
      invoked |-> invoked,
      requests |-> 1,
      raised |-> FALSE,
      printed |-> IF invoke_failed(invoked)
                  THEN << "Error during gap analysis" >> ELSE << >>,
      returned |-> IF invoke_failed(invoked) THEN None
                   ELSE Some(analyze_gaps_result(self.model_name, invoked.response[1])) ]

generate_remediation_keeping_partial(self, invoked) ==
    [ method |-> "generate_remediation",
      invoked |-> invoked,
      requests |-> 1,
      raised |-> FALSE,
      printed |-> IF invoke_failed(invoked)
                  THEN << "Error generating remediation" >> ELSE << >>,
      returned |-> Some(generate_remediation_result(self.model_name,
                            IF invoke_failed(invoked) THEN << >>
                            ELSE invoked.response[1])) ]

\* PolicyJudge.generate_remediation, likewise
generate_remediation(self, invoked) ==
    [ method |-> "generate_remediation",
      invoked |-> invoked,
      requests |-> 1,
      raised |-> FALSE,
      printed |-> IF invoke_failed(invoked)
                  THEN << "Error generating remediation" >> ELSE << >>,
      returned |-> IF invoke_failed(invoked) THEN None
                   ELSE Some(generate_remediation_result(self.model_name,
                                                         invoked.response[1])) ]

with_gap_analysis_without_summary(res, gap_result) ==
    dict_set(dict_set(res, "gap_analysis", gap_result),
             "compliance_score", calculate_score(gap_result.analysis))

\* the block run after a successful gap analysis: store the result, score it,
\* summarise it
with_gap_analysis(res, gap_result) ==
    LET score == calculate_score(gap_result.analysis)
        summary == ExecutiveSummary_generate(gap_result.analysis, score)
    IN  dict_set(dict_set(dict_set(res, "gap_analysis", gap_result),
                          "compliance_score", score),
                 "executive_summary", summary)

\* the export_data of _export_complete_report
export_data_of(res) ==
    [x \in {"timestamp", "framework", "model"} \cup DOMAIN res |->
        IF x \in DOMAIN res THEN res[x]
        ELSE IF x = "timestamp" THEN isoformat(today)
        ELSE IF x = "framework" THEN REFERENCE_FRAMEWORK
        ELSE config.OLLAMA_MODEL]

(***************************************************************************)
(* ResultExporter (src/src/utils.py)                                       *)
(*                                                                         *)
(* The exporters take any dict, so a value inside it carries its Python    *)
(* type: a str (its pieces), an int, or a dict from keys to values.  Each  *)
(* call writes to the output_path it is given, a file that did not exist   *)
(* before the call.                                                        *)
(***************************************************************************)
py_str(s) == [type |-> "str", val |-> s]

py_int(n) == [type |-> "int", val |-> n]

py_dict(d) == [type |-> "dict", val |-> d]

\* f"{value}": a str as it is, an int in decimal, a dict by its repr
py_format(v) ==
    IF v.type = "str" THEN v.val
    ELSE IF v.type = "int" THEN << int_str(v.val) >>
    ELSE << "{...}" >>

\* the largest int a JSON document of the model holds
MaxInt == 100

\* the encodings locale.getpreferredencoding() can name, which write_text
\* uses when it is given none
Encodings == { "utf-8", "cp1252" }

RECURSIVE json_dumps_numbers_as_strings(_)
json_dumps_numbers_as_strings(v) ==
    IF v.type = "str" THEN [json |-> "string", chars |-> v.val]
    ELSE IF v.type = "int" THEN [json |-> "string", chars |-> << int_str(v.val) >>]
    ELSE [json |-> "object",
          members |-> [k \in DOMAIN v.val |-> json_dumps_numbers_as_strings(v.val[k])]]

\* json.dumps(value, indent=2, ensure_ascii=False): the JSON document, a
\* string with the characters of the str, a number with the decimal digits of
\* the int, an object with a member for each key of the dict
RECURSIVE json_dumps(_)
json_dumps(v) ==
    IF v.type = "str" THEN [json |-> "string", chars |-> v.val]
    ELSE IF v.type = "int" THEN [json |-> "number", digits |-> int_str(v.val)]
    ELSE [json |-> "object",
          members |-> [k \in DOMAIN v.val |-> json_dumps(v.val[k])]]

\* the characters a JSON document holds outside ASCII
RECURSIVE non_ascii_of(_)
non_ascii_of(document) ==
    IF document.json = "string"
    THEN { document.chars[i] : i \in 1..Len(document.chars) } \cap { LongS }
    ELSE IF document.json = "number" THEN {}
    ELSE UNION { non_ascii_of(document.members[k]) : k \in DOMAIN document.members }

\* str.encode(encoding) succeeds; U+017F is not in code page 1252
encodable(document, encoding) ==
    encoding = "utf-8" \/ non_ascii_of(document) = {}

\* the file write_text leaves when encoding the text fails: opened, empty
EmptyFile == [json |-> "empty"]

\* json.loads of a document: the value, or None when it raises
RECURSIVE json_loads(_)
json_loads(document) ==
    IF document.json = "empty" THEN None
    ELSE IF document.json = "string" THEN Some(py_str(document.chars))
    ELSE IF document.json = "number"
    THEN Some(py_int(CHOOSE n \in 0..MaxInt : int_str(n) = document.digits))
    ELSE Some(py_dict([k \in DOMAIN document.members |->
                          json_loads(document.members[k])[1]]))

export_data_in_place(res) ==
    LET export_data == dict_set(res, "export_timestamp",
                                py_str(<< isoformat(today) >>))
    IN  [export_data |-> export_data, results |-> export_data]

\* export_to_json: {'export_timestamp': ..., **results}, a new dict in which
\* the entries of results come last; the caller's dict is left as it is
export_data_json(res) ==
    [ export_data |->
        [k \in {"export_timestamp"} \cup DOMAIN res |->
            IF k \in DOMAIN res THEN res[k]
            ELSE py_str(<< isoformat(today) >>)],
      results |-> res ]

\* ResultExporter.export_to_json(results, output_path): the caller's dict
\* after the call, the file, the console line, whether an exception leaves
\* the call.  writable: output_path can be opened for writing.
export_to_json(res, writable, encoding) ==
    LET built == export_data_json(res)
        document == json_dumps(py_dict(built.export_data))
    IN  IF ~writable
        THEN [results |-> built.results, file |-> None,
              printed |-> "Error exporting JSON", raised |-> FALSE]
        ELSE IF ~encodable(document, encoding)
        THEN [results |-> built.results, file |-> Some(EmptyFile),
              printed |-> "Error exporting JSON", raised |-> FALSE]
        ELSE [results |-> built.results, file |-> Some(document),
              printed |-> "JSON exported to", raised |-> FALSE]

\* datetime.now().strftime('%Y-%m-%d %H:%M:%S'); the model keeps the date
strftime_Y_m_d_H_M_S(date) == isoformat(date) \o " 00:00:00"

\* export_to_markdown: title, timestamp, framework and model lines, rule
markdown_header(res) ==
    << py_str(<< "# Policy Gap Analysis Report\n" >>),
       py_str(<< "**Generated:** ", strftime_Y_m_d_H_M_S(today), "\n" >>) >>
    \o (IF "framework" \in DOMAIN res
        THEN << py_str(<< "**Framework:** " >> \o py_format(res["framework"])
                       \o << "\n" >>) >>
        ELSE << >>)
    \o (IF "model_used" \in DOMAIN res
        THEN << py_str(<< "**AI Model:** " >> \o py_format(res["model_used"])
                       \o << "\n" >>) >>
        ELSE << >>)
    \o << py_str(<< "\n---\n\n" >>) >>

score_block_wanted_ignoring_flag(res, include_score) ==
    "compliance_score" \in DOMAIN res

\* export_to_markdown: `include_score and 'compliance_score' in results`
score_block_wanted(res, include_score) ==
    include_score /\ "compliance_score" \in DOMAIN res

\* export_to_markdown: the compliance score block, or None when one of its
\* subscripts raises
score_block(score) ==
    LET subscriptable ==
            /\ score.type = "dict"
            /\ {"compliance_percentage", "risk_level", "total_gaps", "breakdown"}
                  \subseteq DOMAIN score.val
            /\ score.val["breakdown"].type = "dict"
            /\ {"critical", "high", "medium", "low"}
                  \subseteq DOMAIN score.val["breakdown"].val
        line(label, value, end) ==
            py_str(<< label >> \o py_format(value) \o << end >>)
    IN  IF ~subscriptable THEN None
        ELSE LET breakdown == score.val["breakdown"].val
             IN  Some(<< py_str(<< "## Compliance Score\n\n" >>),
                         line("- **Overall Compliance:** ",
                              score.val["compliance_percentage"], "\n"),
                         line("- **Risk Level:** ", score.val["risk_level"], "\n"),
                         line("- **Total Gaps:** ", score.val["total_gaps"], "\n"),
                         line("  - Critical: ", breakdown["critical"], "\n"),
                         line("  - High: ", breakdown["high"], "\n"),
                         line("  - Medium: ", breakdown["medium"], "\n"),
                         line("  - Low: ", breakdown["low"], "\n\n"),
                         py_str(<< "---\n\n" >>) >>)

markdown_sections_remediation_first(res) ==
    (IF "remediation" \in DOMAIN res
     THEN << py_str(<< "## Remediation Plan\n\n" >>), res["remediation"],
             py_str(<< "\n\n" >>) >>
     ELSE << >>)
    \o (IF "analysis" \in DOMAIN res
        THEN << py_str(<< "## Gap Analysis\n\n" >>), res["analysis"],
                py_str(<< "\n\n" >>) >>
        ELSE << >>)

\* export_to_markdown: the gap analysis and remediation sections; the values
\* are appended to the list as they are
markdown_sections(res) ==
    (IF "analysis" \in DOMAIN res
     THEN << py_str(<< "## Gap Analysis\n\n" >>), res["analysis"],
             py_str(<< "\n\n" >>) >>
     ELSE << >>)
    \o (IF "remediation" \in DOMAIN res
        THEN << py_str(<< "## Remediation Plan\n\n" >>), res["remediation"],
                py_str(<< "\n\n" >>) >>
        ELSE << >>)

\* export_to_markdown: the footer
markdown_footer ==
    << py_str(<< "\n---\n\n" >>),
       py_str(<< "*Generated by Policy Gap Analysis Tool - HACK IITK 2026*\n" >>) >>

RECURSIVE join_from(_, _)
join_from(content, i) ==
    IF i > Len(content) THEN << >>
    ELSE content[i].val \o join_from(content, i + 1)

\* ''.join(content): the text, or None when an item is no str (TypeError)
str_join(content) ==
    IF \A i \in 1..Len(content) : content[i].type = "str"
    THEN Some(join_from(content, 1))
    ELSE None

\* ResultExporter.export_to_markdown(results, output_path, include_score)
export_to_markdown(res, include_score, writable) ==
    LET block == IF score_block_wanted(res, include_score)
                 THEN score_block(res["compliance_score"])
                 ELSE Some(<< >>)
        content == IF block = None THEN None
                   ELSE Some(markdown_header(res) \o block[1]
                             \o markdown_sections(res) \o markdown_footer)
        text == IF content = None THEN None ELSE str_join(content[1])
    IN  IF text = None \/ ~writable
        THEN [results |-> res, file |-> None,
              printed |-> "Error exporting Markdown", raised |-> FALSE]
        ELSE [results |-> res, file |-> text,
              printed |-> "Markdown exported to", raised |-> FALSE]

\* the values of the pipeline's results with their Python types
py_score(score) ==
    py_dict([ compliance_score |-> py_int(score.compliance_score),
              compliance_percentage |-> py_str(<< score.compliance_percentage >>),
              total_gaps |-> py_int(score.total_gaps),
              breakdown |-> py_dict([ critical |-> py_int(score.breakdown.critical),
                                      high |-> py_int(score.breakdown.high),
                                      medium |-> py_int(score.breakdown.medium),
                                      low |-> py_int(score.breakdown.low) ]),
              risk_level |-> py_str(<< score.risk_level >>) ])

py_analysis_result(result) ==
    py_dict([ framework |-> py_str(<< result.framework >>),
              analysis |-> py_str(result.analysis),
              model_used |-> py_str(<< result.model_used >>) ])

py_remediation_result(result) ==
    py_dict([ framework |-> py_str(<< result.framework >>),
              remediation |-> py_str(result.remediation),
              model_used |-> py_str(<< result.model_used >>) ])

py_export_data(export_data) ==
    [k \in DOMAIN export_data |->
        IF k \in {"timestamp", "framework", "model"} THEN py_str(<< export_data[k] >>)
        ELSE IF k = "gap_analysis" THEN py_analysis_result(export_data[k])
        ELSE IF k = "remediation" THEN py_remediation_result(export_data[k])
        ELSE IF k = "compliance_score" THEN py_score(export_data[k])
        ELSE py_str(export_data[k])]

\* PolicyAnalysisPipeline._export_complete_report: what the two exporters
\* give for the export_data, the separately saved executive summary, and
\* whether an exception leaves the call.  writable: files of config.OUTPUT_DIR
\* can be opened for writing.
_export_complete_report(res, writable, encoding) ==
    LET export_data == py_export_data(export_data_of(res))
    IN  [ writable |-> writable,
          json |-> export_to_json(export_data, writable, encoding),
          markdown |-> export_to_markdown(export_data, TRUE, writable),
          executive_summary |-> IF "executive_summary" \in DOMAIN res /\ writable
                                THEN Some(res["executive_summary"])
                                ELSE None,
          raised |-> "executive_summary" \in DOMAIN res /\ ~writable ]

(***************************************************************************)
(* PolicyAnalysisPipeline: a run                                           *)
(***************************************************************************)
ScorerIdle ==
    /\ gap_analysis_text = <<>>
    /\ score_data = None
    /\ prev_data = None
    /\ recased_from = None
    /\ exec_summary = None
    /\ prev_summary = None

ExportIdle ==
    /\ caller_results = EmptyDict
    /\ export_call = None
    /\ output_file = None
    /\ prev_export = None

Init ==
    /\ args = None
    /\ config = [OLLAMA_MODEL |-> OLLAMA_MODEL]
    /\ pc = "main"
    /\ mode = "none"
    /\ user_policy_text = None
    /\ reference_text = None
    /\ judge = None
    /\ results = EmptyDict
    /\ exported = None
    /\ stages = <<>>
    /\ reported = <<>>
    /\ llm_requests = 0
    /\ last_call = None
    /\ prompted = <<>>
    /\ reports = None
    /\ today \in Dates
    /\ ScorerIdle
    /\ ExportIdle
    /\ LoaderIdle

\* the values of --user-policy and of --reference on the command line: None
\* when the flag is absent
PathFlags == { None, Some(""), Some("policy.md") }

\* `bool(value)` for an Optional[str] of argparse
truthy(value) == value # None /\ value[1] # ""

batch_mode_by_flag_alone(a) == a.batch

\* main: the test that chooses run_batch over run_interactive
batch_mode(a) == a.batch /\ truthy(a.user_policy) /\ truthy(a.reference)

\* main: the command line is parsed (batch is the --batch flag, user_policy
\* and reference are the values of the path flags, model is the value of
\* --model or its default), config.OLLAMA_MODEL is assigned and the mode chosen
Main ==
    /\ pc = "main"
    /\ \E batch \in BOOLEAN, user_policy \in PathFlags, reference \in PathFlags,
          model_flag \in ModelFlags :
          LET model == IF model_flag = None THEN config.OLLAMA_MODEL
                       ELSE model_flag[1]
          IN  /\ args' = Some([batch |-> batch, user_policy |-> user_policy,
                               reference |-> reference, model_flag |-> model_flag,
                               model |-> model])
              /\ config' = IF model # "" THEN [config EXCEPT !.OLLAMA_MODEL = model]
                           ELSE config
              /\ IF batch_mode([batch |-> batch, user_policy |-> user_policy,
                                reference |-> reference])
                 THEN mode' = "batch" /\ pc' = "b_load"
                 ELSE mode' = "interactive" /\ pc' = "i_load_policy"
    /\ UNCHANGED <<user_policy_text, reference_text, judge, results, exported, stages,
                   reported, llm_requests, last_call, today>>
    /\ UNCHANGED <<prompted, reports>>
    /\ UNCHANGED scorerVars
    /\ UNCHANGED exportVars
    /\ UNCHANGED loaderVars

\* run_interactive, step 1: load the user policy
I_LoadPolicy ==
    /\ pc = "i_load_policy"
    /\ \E text \in ExtractOutcomes :
          /\ user_policy_text' = text
          /\ IF falsy(text)
             THEN /\ reported' = Append(reported, "Failed to load user policy. Exiting.")
                  /\ pc' = "done"
             ELSE /\ reported' = reported
                  /\ pc' = "i_load_reference"
    /\ stages' = Append(stages, "extract")
    /\ UNCHANGED <<args, config, mode, reference_text, judge, results, exported,
                   llm_requests, last_call, today>>
    /\ prompted' = Append(prompted, "Enter path to your policy file")
    /\ UNCHANGED reports
    /\ UNCHANGED scorerVars
    /\ UNCHANGED exportVars
    /\ UNCHANGED loaderVars

\* run_interactive, step 2: load the reference standard
I_LoadReference ==
    /\ pc = "i_load_reference"
    /\ \E text \in ExtractOutcomes :
          /\ reference_text' = text
          /\ IF falsy(text)
             THEN /\ reported' = Append(reported,
                                        "Failed to load reference framework. Exiting.")
                  /\ pc' = "done"
             ELSE /\ reported' = reported
                  /\ pc' = "i_init_llm"
    /\ stages' = Append(stages, "extract")
    /\ UNCHANGED <<args, config, mode, user_policy_text, judge, results, exported,
                   llm_requests, last_call, today>>
    /\ prompted' = Append(prompted, "Enter path to reference framework file")
    /\ UNCHANGED reports
    /\ UNCHANGED scorerVars
    /\ UNCHANGED exportVars
    /\ UNCHANGED loaderVars

\* run_batch: load both documents
B_LoadDocuments ==
    /\ pc = "b_load"
    /\ \E policy \in ExtractOutcomes, reference \in ExtractOutcomes :
          /\ user_policy_text' = policy
          /\ reference_text' = reference
          /\ IF falsy(policy) \/ falsy(reference)
             THEN /\ reported' = Append(reported, "Failed to load documents. Exiting.")
                  /\ pc' = "done"
             ELSE /\ reported' = reported
                  /\ pc' = "b_init_llm"
    /\ stages' = stages \o <<"extract", "extract">>
    /\ UNCHANGED <<args, config, mode, judge, results, exported,
                   llm_requests, last_call, today>>
    /\ UNCHANGED <<prompted, reports>>
    /\ UNCHANGED scorerVars
    /\ UNCHANGED exportVars
    /\ UNCHANGED loaderVars

\* both modes: PolicyJudge(verbose=config.VERBOSE), which may raise
InitLLM ==
    /\ pc \in {"i_init_llm", "b_init_llm"}
    /\ \E raised \in BOOLEAN :
          IF raised
          THEN /\ judge' = judge
               /\ reported' = Append(reported, "Failed to initialize LLM")
               /\ pc' = "done"
          ELSE /\ judge' = Some(PolicyJudge)
               /\ reported' = reported
               /\ pc' = IF mode = "batch" THEN "b_gap" ELSE "i_gap"
    /\ UNCHANGED <<args, config, mode, user_policy_text, reference_text, results,
                   exported, stages, llm_requests, last_call, today>>
    /\ UNCHANGED <<prompted, reports>>
    /\ UNCHANGED scorerVars
    /\ UNCHANGED exportVars
    /\ UNCHANGED loaderVars

\* run_interactive, step 4: gap analysis, if the user confirms; the write of
\* _save_results may raise, which ends the run
I_GapAnalysis ==
    /\ pc = "i_gap"
    /\ \/ \* the user declines
          /\ pc' = "i_remediation"
          /\ UNCHANGED <<results, stages, reported, llm_requests, last_call>>
       \/ \* analyze_gaps is called
          \E invoked \in InvokeOutcomes(AnalysisTexts), saved \in BOOLEAN :
             LET call == analyze_gaps(judge[1], invoked)
             IN  /\ llm_requests' = llm_requests + call.requests
                 /\ last_call' = Some(call)
                 /\ reported' = reported \o call.printed
                 /\ IF call.returned = None
                    THEN /\ stages' = Append(stages, "analyze")
                         /\ pc' = "i_remediation"
                         /\ UNCHANGED results
                    ELSE /\ results' = with_gap_analysis(results, call.returned[1])
                         /\ stages' = stages \o <<"analyze", "score", "summarize">>
                         /\ pc' = IF saved THEN "i_remediation" ELSE "crashed"
    /\ UNCHANGED <<args, config, mode, user_policy_text, reference_text, judge,
                   exported, today>>
    /\ UNCHANGED <<prompted, reports>>
    /\ UNCHANGED scorerVars
    /\ UNCHANGED exportVars
    /\ UNCHANGED loaderVars

\* run_interactive, step 5: remediation, if there is a gap analysis and the
\* user confirms
I_Remediation ==
    /\ pc = "i_remediation"
    /\ \/ \* no gap analysis, or the user declines
          /\ pc' = "i_export"
          /\ UNCHANGED <<results, stages, reported, llm_requests, last_call>>
       \/ \* generate_remediation is called
          /\ "gap_analysis" \in DOMAIN results
          /\ \E invoked \in InvokeOutcomes(RemediationTexts), saved \in BOOLEAN :
                LET call == generate_remediation(judge[1], invoked)
                IN  /\ llm_requests' = llm_requests + call.requests
                    /\ last_call' = Some(call)
                    /\ reported' = reported \o call.printed
                    /\ stages' = Append(stages, "remediate")
                    /\ IF call.returned = None
                       THEN /\ pc' = "i_export"
                            /\ UNCHANGED results
                       ELSE /\ results' = dict_set(results, "remediation",
                                                   call.returned[1])
                            /\ pc' = IF saved THEN "i_export" ELSE "crashed"
    /\ UNCHANGED <<args, config, mode, user_policy_text, reference_text, judge,
                   exported, today>>
    /\ UNCHANGED <<prompted, reports>>
    /\ UNCHANGED scorerVars
    /\ UNCHANGED exportVars
    /\ UNCHANGED loaderVars

\* run_interactive, step 6: export if there are results and the user confirms,
\* then the summary
I_Export ==
    /\ pc = "i_export"
    /\ \/ \* no results, or the user declines
          /\ pc' = "done"
          /\ UNCHANGED <<exported, stages, reports>>
       \/ \* _export_complete_report
          /\ DOMAIN results # {}
          /\ \E writable \in BOOLEAN, encoding \in Encodings :
                LET report == _export_complete_report(results, writable, encoding)
                IN  /\ reports' = Some(report)
                    /\ pc' = IF report.raised THEN "crashed" ELSE "done"
          /\ exported' = Some(export_data_of(results))
          /\ stages' = Append(stages, "export")
    /\ UNCHANGED <<args, config, mode, user_policy_text, reference_text, judge, results,
                   reported, llm_requests, last_call, today>>
    /\ UNCHANGED prompted
    /\ UNCHANGED scorerVars
    /\ UNCHANGED exportVars
    /\ UNCHANGED loaderVars

\* run_batch: gap analysis; the run ends there if it returns None
B_GapAnalysis ==
    /\ pc = "b_gap"
    /\ \E invoked \in InvokeOutcomes(AnalysisTexts), saved \in BOOLEAN :
          LET call == analyze_gaps(judge[1], invoked)
          IN  /\ llm_requests' = llm_requests + call.requests
              /\ last_call' = Some(call)
              /\ reported' = reported \o call.printed
              /\ IF call.returned = None
                 THEN /\ stages' = Append(stages, "analyze")
                      /\ pc' = "done"
                      /\ UNCHANGED results
                 ELSE /\ results' = with_gap_analysis(results, call.returned[1])
                      /\ stages' = stages \o <<"analyze", "score", "summarize">>
                      /\ pc' = IF saved THEN "b_export" ELSE "crashed"
    /\ UNCHANGED <<args, config, mode, user_policy_text, reference_text, judge,
                   exported, today>>
    /\ UNCHANGED <<prompted, reports>>
    /\ UNCHANGED scorerVars
    /\ UNCHANGED exportVars
    /\ UNCHANGED loaderVars

\* run_batch: _export_complete_report, called before generate_remediation
B_Export ==
    /\ pc = "b_export"
    /\ \E writable \in BOOLEAN, encoding \in Encodings :
          LET report == _export_complete_report(results, writable, encoding)
          IN  /\ reports' = Some(report)
              /\ pc' = IF report.raised THEN "crashed" ELSE "b_remediation"
    /\ exported' = Some(export_data_of(results))
    /\ stages' = Append(stages, "export")
    /\ UNCHANGED <<args, config, mode, user_policy_text, reference_text, judge, results,
                   reported, llm_requests, last_call, today>>
    /\ UNCHANGED prompted
    /\ UNCHANGED scorerVars
    /\ UNCHANGED exportVars
    /\ UNCHANGED loaderVars

\* run_batch: remediation, then the summary
B_Remediation ==
    /\ pc = "b_remediation"
    /\ \E invoked \in InvokeOutcomes(RemediationTexts), saved \in BOOLEAN :
          LET call == generate_remediation(judge[1], invoked)
          IN  /\ llm_requests' = llm_requests + call.requests
              /\ last_call' = Some(call)
              /\ reported' = reported \o call.printed
              /\ IF call.returned = None
                 THEN /\ pc' = "done"
                      /\ UNCHANGED results
                 ELSE /\ results' = dict_set(results, "remediation", call.returned[1])
                      /\ pc' = IF saved THEN "done" ELSE "crashed"
    /\ stages' = Append(stages, "remediate")
    /\ UNCHANGED <<args, config, mode, user_policy_text, reference_text, judge,
                   exported, today>>
    /\ UNCHANGED <<prompted, reports>>
    /\ UNCHANGED scorerVars
    /\ UNCHANGED exportVars
    /\ UNCHANGED loaderVars

Next ==
    \/ Main
    \/ I_LoadPolicy
    \/ I_LoadReference
    \/ B_LoadDocuments
    \/ InitLLM
    \/ I_GapAnalysis
    \/ I_Remediation
    \/ I_Export
    \/ B_GapAnalysis
    \/ B_Export
    \/ B_Remediation

Spec == Init /\ [][Next]_vars

(***************************************************************************)
(* The scorer called on a text, then on another text or on a case variant  *)
(* of the same text.  calculate_score is a static method that keeps no     *)
(* state, so two consecutive calls are all a relation between calls needs. *)
(***************************************************************************)
PipeIdle ==
    /\ args = None
    /\ config = [OLLAMA_MODEL |-> OLLAMA_MODEL]
    /\ pc = "idle"
    /\ mode = "none"
    /\ user_policy_text = None
    /\ reference_text = None
    /\ judge = None
    /\ results = EmptyDict
    /\ exported = None
    /\ stages = <<>>
    /\ reported = <<>>
    /\ llm_requests = 0
    /\ last_call = None
    /\ prompted = <<>>
    /\ reports = None

FirstDate == [year |-> 2026, month |-> 11, day |-> 1]

InitScore ==
    /\ gap_analysis_text \in Texts
    /\ score_data = None
    /\ prev_data = None
    /\ recased_from = None
    /\ exec_summary = None
    /\ prev_summary = None
    /\ today = FirstDate
    /\ PipeIdle
    /\ ExportIdle
    /\ LoaderIdle

\* ComplianceScorer.calculate_score(gap_analysis_text)
Score ==
    /\ score_data = None
    /\ score_data' = Some(calculate_score(gap_analysis_text))
    /\ UNCHANGED <<gap_analysis_text, prev_data, recased_from, exec_summary,
                   prev_summary, today, reported>>
    /\ UNCHANGED pipeVars
    /\ UNCHANGED exportVars
    /\ UNCHANGED loaderVars

\* the caller turns to another text
NextText ==
    /\ score_data # None
    /\ prev_data = None
    /\ \E t \in Texts :
          gap_analysis_text' = t
    /\ prev_data' = score_data
    /\ score_data' = None
    /\ recased_from' = None
    /\ UNCHANGED <<exec_summary, prev_summary, today, reported>>
    /\ UNCHANGED pipeVars
    /\ UNCHANGED exportVars
    /\ UNCHANGED loaderVars

\* the caller turns to the same text in upper case or in lower case
ChangeCase ==
    /\ score_data # None
    /\ prev_data = None
    /\ \E t \in { upper(gap_analysis_text), lower(gap_analysis_text) } :
          gap_analysis_text' = t
    /\ prev_data' = score_data
    /\ score_data' = None
    /\ recased_from' = Some(gap_analysis_text)
    /\ UNCHANGED <<exec_summary, prev_summary, today, reported>>
    /\ UNCHANGED pipeVars
    /\ UNCHANGED exportVars
    /\ UNCHANGED loaderVars

NextScore == Score \/ NextText \/ ChangeCase

SpecScore == InitScore /\ [][NextScore]_vars

(***************************************************************************)
(* Properties of the scorer                                                *)
(***************************************************************************)
Scored == score_data # None

TextLower == lower(gap_analysis_text)

\* kw occurs in s somewhere, as a substring
Occurs(s, kw) ==
    \E i \in 1..(Len(s) - Len(kw) + 1) : SubSeq(s, i, i + Len(kw) - 1) = kw

\* the positions where kw occurs in s, overlapping occurrences included
Occurrences(s, kw) ==
    { i \in 1..(Len(s) - Len(kw) + 1) : SubSeq(s, i, i + Len(kw) - 1) = kw }

OverlapCount(s, kw) == Cardinality(Occurrences(s, kw))

\* the largest number of occurrences of kw in s no two of which share a character
DisjointCount(s, kw) ==
    LET packs == { S \in SUBSET Occurrences(s, kw) :
                     \A i \in S : \A j \in S : i < j => j - i >= Len(kw) }
    IN  CHOOSE n \in 0..Len(s) :
          /\ \E S \in packs : Cardinality(S) = n
          /\ \A S \in packs : Cardinality(S) <= n

SumOverlap(s, kws) ==
    LET f[k \in 0..Len(kws)] ==
            IF k = 0 THEN 0 ELSE f[k - 1] + OverlapCount(s, kws[k])
    IN  f[Len(kws)]

SumDisjoint(s, kws) ==
    LET f[k \in 0..Len(kws)] ==
            IF k = 0 THEN 0 ELSE f[k - 1] + DisjointCount(s, kws[k])
    IN  f[Len(kws)]

AllKeywords ==
    { critical_keywords[k] : k \in 1..Len(critical_keywords) } \cup
    { high_keywords[k] : k \in 1..Len(high_keywords) } \cup
    { medium_keywords[k] : k \in 1..Len(medium_keywords) } \cup
    { low_keywords[k] : k \in 1..Len(low_keywords) }

Deduction(b) == 10 * b.critical + 5 * b.high + 2 * b.medium + 1 * b.low

GapSum(b) == b.critical + b.high + b.medium + b.low

\* C1: the returned compliance_score is max(0, 100 - (10c + 5h + 2m + 1l)) for
\* the four bucket counts c, h, m, l of the result, and 100 when c+h+m+l = 0.
C1_ScoreIsClampedDeduction ==
    Scored =>
        LET d == score_data[1]
            ded == Deduction(d.breakdown)
        IN  /\ d.compliance_score = (IF 100 - ded >= 0 THEN 100 - ded ELSE 0)
            /\ GapSum(d.breakdown) = 0 => d.compliance_score = 100

\* a result with all four buckets non-empty and a score strictly inside 0..100
C1_Witness ==
    /\ Scored
    /\ score_data[1].breakdown.critical > 0
    /\ score_data[1].breakdown.high > 0
    /\ score_data[1].breakdown.medium > 0
    /\ score_data[1].breakdown.low > 0
    /\ score_data[1].compliance_score \in 1..99

\* C2: a text in which no severity marker occurs (the empty text included)
\* scores exactly 100 with risk level "Very Low".
C2_NoMarkerScoresHundred ==
    (Scored /\ \A kw \in AllKeywords : ~Occurs(TextLower, kw)) =>
        /\ score_data[1].compliance_score = 100
        /\ score_data[1].risk_level = "Very Low"

\* a non-empty text without any marker has been scored
C2_Witness ==
    /\ Scored
    /\ gap_analysis_text # <<>>
    /\ \A kw \in AllKeywords : ~Occurs(TextLower, kw)
    /\ score_data[1].compliance_score = 100

\* C3: the compliance_score is an integer in 0..100 however many markers occur.
C3_ScoreInRange ==
    Scored => score_data[1].compliance_score \in 0..100

\* a text whose deduction exceeds 100 has been scored, and scored 0
C3_Witness ==
    /\ Scored
    /\ Deduction(score_data[1].breakdown) > 100
    /\ score_data[1].compliance_score = 0

\* C4 as claimed: each bucket count is the number of possibly overlapping
\* occurrences of the bucket's markers in the lower-cased text, so that two
\* occurrences of a marker sharing a character are both counted.
C4_CountsOverlappingOccurrences ==
    Scored =>
        LET b == score_data[1].breakdown
        IN  /\ b.critical = SumOverlap(TextLower, critical_keywords)
            /\ b.high = SumOverlap(TextLower, high_keywords)
            /\ b.medium = SumOverlap(TextLower, medium_keywords)
            /\ b.low = SumOverlap(TextLower, low_keywords)

\* C4 as amended: each bucket count is, summed over the bucket's markers, the
\* number of occurrences of the marker in the lower-cased text that do not
\* overlap each other (two occurrences of one marker that share a character
\* count once); occurrences of different markers are counted independently.
C4_CountsNonOverlappingOccurrences ==
    Scored =>
        LET b == score_data[1].breakdown
        IN  /\ b.critical = SumDisjoint(TextLower, critical_keywords)
            /\ b.high = SumDisjoint(TextLower, high_keywords)
            /\ b.medium = SumDisjoint(TextLower, medium_keywords)
            /\ b.low = SumDisjoint(TextLower, low_keywords)

\* a scored text in which two occurrences of "medium" share a character
C4_Witness ==
    /\ Scored
    /\ \E i \in Occurrences(TextLower, medium_keywords[1]) :
          \E j \in Occurrences(TextLower, medium_keywords[1]) :
             i < j /\ j - i < Len(medium_keywords[1])
    /\ score_data[1].breakdown.medium >= 1

RiskLabel(score) ==
    CASE score >= 90 -> "Very Low"
      [] score \in 80..89 -> "Low"
      [] score \in 70..79 -> "Moderate"
      [] score \in 60..69 -> "High"
      [] score < 60 -> "Critical"

BoundaryLabels ==
    { <<90, "Very Low">>, <<89, "Low">>, <<80, "Low">>, <<79, "Moderate">>,
      <<70, "Moderate">>, <<69, "High">>, <<60, "High">>, <<59, "Critical">> }

\* C5: the risk_level of a result is the label of its compliance_score:
\* >= 90 Very Low, 80..89 Low, 70..79 Moderate, 60..69 High, below 60 Critical;
\* in particular 90, 89, 80, 79, 70, 69, 60, 59 give Very Low, Low, Low,
\* Moderate, Moderate, High, High, Critical.
C5_RiskLabelBoundaries ==
    Scored =>
        /\ score_data[1].risk_level = RiskLabel(score_data[1].compliance_score)
        /\ \A p \in BoundaryLabels :
              score_data[1].compliance_score = p[1] => score_data[1].risk_level = p[2]

\* two consecutive results on the two sides of the 90 boundary
C5_Witness ==
    /\ Scored
    /\ prev_data # None
    /\ prev_data[1].compliance_score = 90
    /\ prev_data[1].risk_level = "Very Low"
    /\ score_data[1].compliance_score = 89
    /\ score_data[1].risk_level = "Low"

\* C6: total_gaps is the sum of the four breakdown fields, each a natural number.
C6_TotalGapsIsSum ==
    Scored =>
        LET b == score_data[1].breakdown
        IN  /\ b.critical \in Nat /\ b.high \in Nat
            /\ b.medium \in Nat /\ b.low \in Nat
            /\ score_data[1].total_gaps = GapSum(b)

\* a result with a low marker counted and at least seven gaps in all
C6_Witness ==
    /\ Scored
    /\ score_data[1].breakdown.low > 0
    /\ score_data[1].total_gaps >= 7

BucketwiseLeq(b1, b2) ==
    /\ b1.critical <= b2.critical
    /\ b1.high <= b2.high
    /\ b1.medium <= b2.medium
    /\ b1.low <= b2.low

\* C7: of two scored texts, the one whose four bucket counts are all at least
\* the other's has a score that is at most the other's.
C7_ScoreMonotone ==
    (Scored /\ prev_data # None) =>
        LET d1 == prev_data[1]
            d2 == score_data[1]
        IN  /\ BucketwiseLeq(d1.breakdown, d2.breakdown)
                  => d2.compliance_score <= d1.compliance_score
            /\ BucketwiseLeq(d2.breakdown, d1.breakdown)
                  => d1.compliance_score <= d2.compliance_score

\* two unrelated texts, the second with more in some bucket and a lower score
C7_Witness ==
    /\ Scored
    /\ prev_data # None
    /\ recased_from = None
    /\ BucketwiseLeq(prev_data[1].breakdown, score_data[1].breakdown)
    /\ prev_data[1].breakdown.high < score_data[1].breakdown.high
    /\ score_data[1].compliance_score < prev_data[1].compliance_score

\* the ASCII characters of the texts: s has no character outside ASCII
IsAscii(s) == \A i \in 1..Len(s) : s[i] # LongS

\* kw occurs in s in some letter case of the ASCII letters
OccursAnyCase(s, kw) ==
    \E i \in 1..(Len(s) - Len(kw) + 1) :
       \A k \in 1..Len(kw) :
          \/ s[i + k - 1] = kw[k]
          \/ <<s[i + k - 1], kw[k]>> \in CasePairs

MarkersCountInAnyCase ==
    LET b == score_data[1].breakdown
    IN  /\ \A k \in 1..Len(critical_keywords) :
              OccursAnyCase(gap_analysis_text, critical_keywords[k]) => b.critical >= 1
        /\ \A k \in 1..Len(high_keywords) :
              OccursAnyCase(gap_analysis_text, high_keywords[k]) => b.high >= 1
        /\ \A k \in 1..Len(medium_keywords) :
              OccursAnyCase(gap_analysis_text, medium_keywords[k]) => b.medium >= 1
        /\ \A k \in 1..Len(low_keywords) :
              OccursAnyCase(gap_analysis_text, low_keywords[k]) => b.low >= 1

SameCountsAndScore ==
    /\ score_data[1].breakdown = prev_data[1].breakdown
    /\ score_data[1].compliance_score = prev_data[1].compliance_score

\* C8 as claimed: a marker counts in any letter case and inside a longer word,
\* and changing the letter case of a text never changes its bucket counts or
\* its score.
C8_CaseNeverChangesCounts ==
    /\ Scored => MarkersCountInAnyCase
    /\ (Scored /\ prev_data # None /\ recased_from # None) => SameCountsAndScore

\* C8 as amended: a marker counts in any letter case and inside a longer word,
\* and changing the case of the letters of an ASCII text never changes its
\* bucket counts or its score.
C8_AsciiCaseNeverChangesCounts ==
    /\ Scored => MarkersCountInAnyCase
    /\ (Scored /\ prev_data # None /\ recased_from # None /\ IsAscii(recased_from[1]))
          => SameCountsAndScore

\* "Criticality" scored, then scored again in another letter case
C8_Witness ==
    /\ Scored
    /\ prev_data # None
    /\ recased_from # None
    /\ IsAscii(recased_from[1])
    /\ recased_from[1] # gap_analysis_text
    /\ Occurs(lower(recased_from[1]), lower(FragCriticality))
    /\ score_data[1].breakdown.critical >= 1

\* C9: the sample text of the test is scored without error with critical >= 1
\* (from "missing" and "critical"), high >= 1 (from "high risk" only),
\* medium >= 1 (from "medium"), compliance_score = 100 - (10*critical + 5*high
\* + 2*medium + 1*low) clamped at 0, and compliance_percentage that score
\* followed by "%".
C9_SampleText ==
    (Scored /\ gap_analysis_text = SampleText) =>
        LET d == score_data[1]
            b == d.breakdown
        IN  /\ b.critical >= 1
            /\ b.critical = OverlapCount(TextLower, critical_keywords[1])
                              + OverlapCount(TextLower, critical_keywords[4])
            /\ b.critical = 2
            /\ b.high >= 1
            /\ b.high = OverlapCount(TextLower, high_keywords[1])
            /\ b.high = 1
            /\ b.medium >= 1
            /\ b.medium = OverlapCount(TextLower, medium_keywords[1])
            /\ b.low = 0
            /\ d.compliance_score = (IF 100 - Deduction(b) >= 0 THEN 100 - Deduction(b) ELSE 0)
            /\ d.compliance_score = 73
            /\ d.compliance_percentage = "73%"

\* the sample text has been scored
C9_Witness ==
    /\ Scored
    /\ gap_analysis_text = SampleText
    /\ score_data[1].compliance_percentage = "73%"

(***************************************************************************)
(* Properties of the pipeline                                              *)
(***************************************************************************)
StageOrder == <<"extract", "analyze", "score", "summarize", "remediate", "export">>

StageRank(stage) == CHOOSE r \in 1..Len(StageOrder) : StageOrder[r] = stage

\* C10: in every run, interactive or batch, the stages happen in the order
\* extract, analyze, score, summarize, remediate, export, and a remediation
\* result that was produced is part of the exported result collection.
C10_ExportAfterRemediation ==
    /\ \A i \in 1..Len(stages) : \A j \in 1..Len(stages) :
          i < j => StageRank(stages[i]) <= StageRank(stages[j])
    /\ (exported # None /\ "remediation" \in DOMAIN results)
          => "remediation" \in DOMAIN exported[1]

(***************************************************************************)
(* The model override of the command line                                  *)
(***************************************************************************)
\* the identifier given with --model, when one is given
ModelOverride ==
    IF args # None /\ args[1].model_flag # None /\ args[1].model_flag[1] # ""
    THEN args[1].model_flag
    ELSE None

\* C11: when the command line gives --model M, the judge the pipeline creates
\* is constructed with M, every analysis and remediation result records M as
\* the model used, and M is the model written at the top level of the
\* combined report.
C11_OverrideReachesJudge ==
    ModelOverride # None =>
        /\ judge # None => judge[1].model_name = ModelOverride[1]
        /\ \A k \in {"gap_analysis", "remediation"} \cap DOMAIN results :
              results[k].model_used = ModelOverride[1]
        /\ exported # None => exported[1]["model"] = ModelOverride[1]

(***************************************************************************)
(* Calls of the exporters on result collections                            *)
(***************************************************************************)
\* the entries of a flat collection: an analysis result, a remediation result
\* and the score put side by side
FlatEntries(analysis_text) ==
    [ framework |-> py_str(<< REFERENCE_FRAMEWORK >>),
      model_used |-> py_str(<< OLLAMA_MODEL >>),
      compliance_score |-> py_score(calculate_score(analysis_text)),
      analysis |-> py_str(analysis_text),
      remediation |-> py_str(<<"f","i","x">>) ]

\* the collections handed to the exporters: every selection of the flat
\* entries, one with a character outside ASCII, and the export_data of the
\* pipeline without and with a remediation
ResultCollections ==
    { [k \in keys |-> FlatEntries(SampleText)[k]] :
         keys \in SUBSET {"framework", "model_used", "compliance_score",
                          "analysis", "remediation"} }
    \cup { [k \in {"framework", "analysis"} |-> FlatEntries(FragLongS)[k]] }
    \cup { py_export_data(export_data_of(
               with_gap_analysis(EmptyDict,
                   analyze_gaps_result(OLLAMA_MODEL, SampleText)))),
           py_export_data(export_data_of(
               dict_set(with_gap_analysis(EmptyDict,
                            analyze_gaps_result(OLLAMA_MODEL, SampleText)),
                        "remediation",
                        generate_remediation_result(OLLAMA_MODEL, <<"f","i","x">>)))) }

InitExport ==
    /\ today = FirstDate
    /\ PipeIdle
    /\ ScorerIdle
    /\ caller_results \in ResultCollections
    /\ export_call = None
    /\ output_file = None
    /\ prev_export = None
    /\ LoaderIdle

\* the caller exports its collection as JSON
ExportToJson ==
    /\ \E writable \in BOOLEAN, encoding \in Encodings :
          LET out == export_to_json(caller_results, writable, encoding)
          IN  /\ caller_results' = out.results
              /\ output_file' = out.file
              /\ export_call' = Some([ method |-> "export_to_json",
                                       include_score |-> None,
                                       printed |-> out.printed,
                                       raised |-> out.raised ])
    /\ prev_export' = IF export_call = None THEN None
                      ELSE Some([call |-> export_call[1], file |-> output_file])
    /\ UNCHANGED <<today, reported>>
    /\ UNCHANGED pipeVars
    /\ UNCHANGED scorerVars
    /\ UNCHANGED loaderVars

\* the caller exports its collection as Markdown
ExportToMarkdown ==
    /\ \E include_score \in BOOLEAN, writable \in BOOLEAN :
          LET out == export_to_markdown(caller_results, include_score, writable)
          IN  /\ caller_results' = out.results
              /\ output_file' = out.file
              /\ export_call' = Some([ method |-> "export_to_markdown",
                                       include_score |-> Some(include_score),
                                       printed |-> out.printed,
                                       raised |-> out.raised ])
    /\ prev_export' = IF export_call = None THEN None
                      ELSE Some([call |-> export_call[1], file |-> output_file])
    /\ UNCHANGED <<today, reported>>
    /\ UNCHANGED pipeVars
    /\ UNCHANGED scorerVars
    /\ UNCHANGED loaderVars

NextExport == ExportToJson \/ ExportToMarkdown

SpecExport == InitExport /\ [][NextExport]_vars

(***************************************************************************)
(* The loader called on a file system, and text cleaning on a raw text      *)
(***************************************************************************)
\* one call of extract_text on a file system
InitLoad ==
    /\ files \in FileSystems
    /\ load_call = None
    /\ raw_text = <<>>
    /\ cleaned_text = None
    /\ recleaned_text = None
    /\ today = FirstDate
    /\ reported = <<>>
    /\ ScorerIdle
    /\ PipeIdle
    /\ ExportIdle

\* self.doc_loader.extract_text(file_path)
ExtractText ==
    /\ load_call = None
    /\ \E file_path \in Paths, read \in ReadOutcomes :
          load_call' = Some(extract_text(DocumentLoader, files, file_path, read))
    /\ UNCHANGED <<files, raw_text, cleaned_text, recleaned_text, today, reported>>
    /\ UNCHANGED allButLoaderVars

NextLoad == ExtractText

SpecLoad == InitLoad /\ [][NextLoad]_vars

\* _clean_text on a raw text, and on what it returned
InitClean ==
    /\ files = {}
    /\ load_call = None
    /\ raw_text \in RawTexts
    /\ cleaned_text = None
    /\ recleaned_text = None
    /\ today = FirstDate
    /\ reported = <<>>
    /\ ScorerIdle
    /\ PipeIdle
    /\ ExportIdle

\* self._clean_text(raw_text)
CleanText ==
    /\ cleaned_text = None
    /\ cleaned_text' = Some(_clean_text(raw_text))
    /\ UNCHANGED <<files, load_call, raw_text, recleaned_text, today, reported>>
    /\ UNCHANGED allButLoaderVars

\* self._clean_text(cleaned_text)
CleanAgain ==
    /\ cleaned_text # None
    /\ recleaned_text = None
    /\ recleaned_text' = Some(_clean_text(cleaned_text[1]))
    /\ UNCHANGED <<files, load_call, raw_text, cleaned_text, today, reported>>
    /\ UNCHANGED allButLoaderVars

NextClean == CleanText \/ CleanAgain

SpecClean == InitClean /\ [][NextClean]_vars

(***************************************************************************)
(* The narrative (Markdown) export                                         *)
(***************************************************************************)
\* the last call was an export_to_markdown that wrote its file
MarkdownWritten ==
    /\ export_call # None
    /\ export_call[1].method = "export_to_markdown"
    /\ export_call[1].printed = "Markdown exported to"
    /\ output_file # None

\* index of the first piece of text equal to piece, 0 when there is none
Position(text, piece) ==
    LET at == { i \in 1..Len(text) : text[i] = piece }
    IN  IF at = {} THEN 0 ELSE CHOOSE i \in at : \A j \in at : i <= j

\* the pieces that open the parts of the report, in the claimed order: title,
\* generation timestamp, framework line, model line, horizontal rule,
\* compliance score block, gap analysis section, remediation section, footer
PartOpeners ==
    << "# Policy Gap Analysis Report\n",
       "**Generated:** ",
       "**Framework:** ",
       "**AI Model:** ",
       "\n---\n\n",
       "## Compliance Score\n\n",
       "## Gap Analysis\n\n",
       "## Remediation Plan\n\n",
       "*Generated by Policy Gap Analysis Tool - HACK IITK 2026*\n" >>

\* the entry of the collection a conditional section is written from
SectionEntry ==
    [ p \in {6, 7, 8} |->
        IF p = 6 THEN "compliance_score" ELSE IF p = 7 THEN "analysis" ELSE "remediation" ]

\* C12: a written narrative export has its parts in the order title,
\* timestamp, framework line, model line, rule, compliance score block, gap
\* analysis section, remediation section, footer: the parts present keep that
\* order, no part is written twice, title, timestamp, rule and footer are
\* always there with the footer last, and the score block and the two
\* sections are there only if the collection has their entry.
C12_PartsInFixedOrder ==
    MarkdownWritten =>
        LET text == output_file[1]
            pos == [p \in 1..Len(PartOpeners) |-> Position(text, PartOpeners[p])]
        IN  /\ \A p \in 1..Len(PartOpeners) : \A q \in 1..Len(PartOpeners) :
                  (p < q /\ pos[p] # 0 /\ pos[q] # 0) => pos[p] < pos[q]
            /\ \A p \in 1..Len(PartOpeners) \ {5} :
                  Cardinality({ i \in 1..Len(text) : text[i] = PartOpeners[p] }) <= 1
            /\ \A p \in {1, 2, 5, 9} : pos[p] # 0
            /\ pos[1] = 1
            /\ pos[9] = Len(text)
            /\ text[Len(text) - 1] = PartOpeners[5]
            /\ Cardinality({ i \in 1..Len(text) : text[i] = PartOpeners[5] }) = 2
            /\ \A p \in {6, 7, 8} :
                  pos[p] # 0 => SectionEntry[p] \in DOMAIN caller_results

\* a written report with all nine parts
C12_Witness ==
    /\ MarkdownWritten
    /\ \A p \in 1..Len(PartOpeners) : Position(output_file[1], PartOpeners[p]) # 0

\* the text without the compliance score block: without the pieces from the
\* block's heading to the rule that closes it
WithoutScoreBlock(text) ==
    LET first == Position(text, "## Compliance Score\n\n")
        closing == { i \in 1..Len(text) : i > first /\ text[i] = "---\n\n" }
        last == CHOOSE i \in closing : \A j \in closing : i <= j
    IN  IF first = 0 THEN text
        ELSE SubSeq(text, 1, first - 1) \o SubSeq(text, last + 1, Len(text))

\* the call before the last one was an export_to_markdown that wrote its file
PrevMarkdownWritten ==
    /\ prev_export # None
    /\ prev_export[1].call.method = "export_to_markdown"
    /\ prev_export[1].call.printed = "Markdown exported to"
    /\ prev_export[1].file # None

\* C13: a written narrative export contains the compliance score block
\* exactly when the collection has a compliance score and include_score was
\* true; and two written exports of the same collection, one with and one
\* without include_score, differ by that block only.
C13_ScoreBlockIffRequested ==
    /\ MarkdownWritten =>
          (Position(output_file[1], "## Compliance Score\n\n") # 0
              <=> (/\ export_call[1].include_score[1]
                   /\ "compliance_score" \in DOMAIN caller_results))
    /\ (MarkdownWritten /\ PrevMarkdownWritten) =>
          WithoutScoreBlock(output_file[1]) = WithoutScoreBlock(prev_export[1].file[1])

\* a collection with a compliance score exported with include_score = true,
\* then with include_score = false
C13_Witness ==
    /\ MarkdownWritten
    /\ PrevMarkdownWritten
    /\ "compliance_score" \in DOMAIN caller_results
    /\ ~export_call[1].include_score[1]
    /\ prev_export[1].call.include_score[1]
    /\ Position(prev_export[1].file[1], "## Compliance Score\n\n") # 0
    /\ Position(output_file[1], "## Compliance Score\n\n") = 0

(***************************************************************************)
(* The structured (JSON) export                                            *)
(***************************************************************************)
\* the last call was an export_to_json that wrote its file
JsonWritten ==
    /\ export_call # None
    /\ export_call[1].method = "export_to_json"
    /\ export_call[1].printed = "JSON exported to"
    /\ output_file # None

ExportFailed ==
    /\ export_call # None
    /\ export_call[1].printed \in {"Error exporting JSON", "Error exporting Markdown"}

\* C15: an export call, structured or narrative, written or failed, leaves
\* the collection it was passed as it was, and no exception leaves the call:
\* a failure is a line on the console.
C15_ExportsLeaveResultsUnchanged ==
    /\ [][caller_results' = caller_results]_vars
    /\ [](export_call # None =>
            /\ ~export_call[1].raised
            /\ (output_file = None \/ output_file = Some(EmptyFile)) => ExportFailed)

\* a failed JSON export after a failed Markdown export
C15_Witness ==
    /\ ExportFailed
    /\ export_call[1].method = "export_to_json"
    /\ prev_export # None
    /\ prev_export[1].call.method = "export_to_markdown"
    /\ prev_export[1].call.printed = "Error exporting Markdown"
    /\ "remediation" \in DOMAIN caller_results

(***************************************************************************)
(* The result collection of a pipeline run                                 *)
(***************************************************************************)
\* the keys of self.results
Has(k) == k \in DOMAIN results

PolicyExtractionFailed == Len(stages) >= 1 /\ user_policy_text = None

\* extract_text was called for the reference and returned None
ReferenceExtractionFailed == Len(stages) >= 2 /\ reference_text = None

LoadFailureLines ==
    { "Failed to load user policy. Exiting.",
      "Failed to load reference framework. Exiting.",
      "Failed to load documents. Exiting." }

\* C17: when the extraction of the policy or of the reference fails, the run
\* is over: the failure is on the console, no judge was created, no request
\* was made to the model, the result collection is empty, nothing was
\* exported, and no stage other than extraction was performed.
C17_FailedExtractionAbortsRun ==
    (PolicyExtractionFailed \/ ReferenceExtractionFailed) =>
        /\ pc = "done"
        /\ Len(reported) = 1 /\ reported[1] \in LoadFailureLines
        /\ judge = None
        /\ llm_requests = 0 /\ last_call = None
        /\ results = EmptyDict
        /\ exported = None
        /\ \A i \in 1..Len(stages) : stages[i] = "extract"

\* an interactive run whose policy loaded and whose reference did not
C17_Witness ==
    /\ mode = "interactive"
    /\ ReferenceExtractionFailed
    /\ ~PolicyExtractionFailed
    /\ pc = "done"

\* a call of the judge failed: its error line is on the console
GapAnalysisFailed ==
    \E i \in 1..Len(reported) : reported[i] = "Error during gap analysis"

RemediationFailed ==
    \E i \in 1..Len(reported) : reported[i] = "Error generating remediation"

InvocationFailed == GapAnalysisFailed \/ RemediationFailed

\* C18 as stated: after a failed model invocation no further stage of the run
\* is performed and no result is touched; a failed gap analysis leaves the
\* collection empty with no scoring, summary or remediation, a failed
\* remediation leaves gap analysis, score and summary as they were.
C18_FailedInvocationAbortsRun ==
    /\ [][InvocationFailed => stages' = stages]_vars
    /\ [][(InvocationFailed \/ InvocationFailed') => results' = results]_vars
    /\ [](GapAnalysisFailed =>
            /\ results = EmptyDict
            /\ \A i \in 1..Len(stages) : stages[i] \in {"extract", "analyze"})
    /\ [](RemediationFailed =>
            DOMAIN results = {"gap_analysis", "compliance_score", "executive_summary"})

\* C18, amended: a failed model invocation changes no result and is followed
\* by no further model stage; a failed gap analysis leaves the collection
\* empty and nothing is scored, summarised, remediated or exported; a failed
\* remediation leaves gap analysis, score and summary as they were, and the
\* one stage that can still follow it is the export of an interactive run.
C18_FailedInvocationPreservesResults ==
    /\ [][InvocationFailed =>
            \/ stages' = stages
            \/ /\ mode = "interactive"
               /\ RemediationFailed
               /\ stages' = Append(stages, "export")
               /\ exported' = Some(export_data_of(results))]_vars
    /\ [][(InvocationFailed \/ InvocationFailed') => results' = results]_vars
    /\ [](GapAnalysisFailed =>
            /\ results = EmptyDict
            /\ exported = None
            /\ \A i \in 1..Len(stages) : stages[i] \in {"extract", "analyze"})
    /\ [](RemediationFailed =>
            DOMAIN results = {"gap_analysis", "compliance_score", "executive_summary"})

\* an interactive run exported its three results after a failed remediation
C18_Witness ==
    /\ RemediationFailed
    /\ mode = "interactive"
    /\ pc = "done"
    /\ exported # None
    /\ DOMAIN results = {"gap_analysis", "compliance_score", "executive_summary"}

(***************************************************************************)
(* The calls of the judge                                                  *)
(***************************************************************************)
\* number of calls of analyze_gaps and generate_remediation made so far: each
\* is logged as one stage
JudgeCalls ==
    Cardinality({ i \in 1..Len(stages) : stages[i] \in {"analyze", "remediate"} })

\* the key under which a method returns the response text
TextKey(method) == IF method = "analyze_gaps" THEN "analysis" ELSE "remediation"

\* C19: every call of analyze_gaps or generate_remediation makes exactly one
\* request; when the request fails (it raises, or the response has no text)
\* the call returns None, raises nothing and makes no second request; when it
\* succeeds the call returns the response text with the framework name and
\* the judge's model identifier.
C19_OneRequestPerCall ==
    /\ llm_requests = JudgeCalls
    /\ last_call # None =>
          LET call == last_call[1]
              failed == call.invoked.raises # "" \/ call.invoked.response = None
          IN  /\ call.requests = 1
              /\ ~call.raised
              /\ failed => call.returned = None
              /\ ~failed =>
                    /\ call.returned # None
                    /\ DOMAIN call.returned[1]
                          = {"framework", TextKey(call.method), "model_used"}
                    /\ call.returned[1][TextKey(call.method)] = call.invoked.response[1]
                    /\ call.returned[1]["framework"] = REFERENCE_FRAMEWORK
                    /\ call.returned[1]["model_used"] = judge[1].model_name

\* a gap analysis that returned a result, then a remediation whose request
\* timed out
C19_Witness ==
    /\ llm_requests = 2
    /\ last_call # None
    /\ last_call[1].method = "generate_remediation"
    /\ last_call[1].invoked.raises = "Timeout"
    /\ last_call[1].returned = None
    /\ Has("gap_analysis")

(***************************************************************************)
(* The executive summary of a scored text                                  *)
(***************************************************************************)
\* analysis texts that name priorities, in several letter cases
FragTopFive == <<"T","o","p"," ","5">>
FragPriority == <<"P","R","I","O","R","I","T","Y">>
FragTopFiveLower == <<"t","o","p"," ","5">>
FragTopFiveApart == <<"t","o","p","5"," ","p","r","i","o","r">>

SummaryTexts ==
    Texts \cup { FragTopFive, FragPriority, FragTopFiveLower, FragTopFiveApart,
                 FragHigh \o FragPriority, FragMissingLow \o FragTopFive }

InitSummary ==
    /\ gap_analysis_text \in SummaryTexts
    /\ score_data = None
    /\ prev_data = None
    /\ recased_from = None
    /\ exec_summary = None
    /\ prev_summary = None
    /\ today \in Dates
    /\ PipeIdle
    /\ ExportIdle
    /\ LoaderIdle

Summarize_logging ==
    /\ score_data # None
    /\ prev_summary = None
    /\ exec_summary' = Some(ExecutiveSummary_generate(gap_analysis_text, score_data[1]))
    /\ prev_summary' = exec_summary
    /\ reported' = Append(reported, "# EXECUTIVE SUMMARY")
    /\ UNCHANGED <<gap_analysis_text, score_data, prev_data, recased_from, today>>
    /\ UNCHANGED pipeVars
    /\ UNCHANGED exportVars
    /\ UNCHANGED loaderVars

\* ExecutiveSummary.generate(gap_analysis_text, score) on the scored text, a
\* first and a second time
Summarize ==
    /\ score_data # None
    /\ prev_summary = None
    /\ exec_summary' = Some(ExecutiveSummary_generate(gap_analysis_text, score_data[1]))
    /\ prev_summary' = exec_summary
    /\ UNCHANGED <<gap_analysis_text, score_data, prev_data, recased_from, today, reported>>
    /\ UNCHANGED pipeVars
    /\ UNCHANGED exportVars
    /\ UNCHANGED loaderVars

\* the date changes between the two calls
DayPasses ==
    /\ exec_summary # None
    /\ prev_summary = None
    /\ \E date \in Dates \ {today} :
          today' = date
    /\ UNCHANGED reported
    /\ UNCHANGED scorerVars
    /\ UNCHANGED pipeVars
    /\ UNCHANGED exportVars
    /\ UNCHANGED loaderVars

NextSummary == Score \/ Summarize \/ DayPasses

SpecSummary == InitSummary /\ [][NextSummary]_vars

\* the three overall assessment sentences
StrongSentence ==
    "Your organization's cybersecurity policy demonstrates strong compliance with industry standards."

ModerateSentence ==
    "Your organization's cybersecurity policy shows moderate compliance but requires significant improvements."

CriticalSentence ==
    "Your organization's cybersecurity policy has critical gaps that expose you to substantial security risks."

\* how many pieces of the summary are the sentence
Times(summary, sentence) ==
    Cardinality({ i \in 1..Len(summary) : summary[i] = sentence })

\* C20: the summary holds exactly one of the three assessment sentences, and
\* which one follows from the score alone: the strong compliance sentence for
\* a score of 80 or more, the moderate compliance sentence from 60 to 79, the
\* critical gaps sentence below 60.
C20_AssessmentByScore ==
    exec_summary # None =>
        LET summary == exec_summary[1]
            score == score_data[1].compliance_score
        IN  /\ Times(summary, StrongSentence) + Times(summary, ModerateSentence)
                  + Times(summary, CriticalSentence) = 1
            /\ score >= 80 => Times(summary, StrongSentence) = 1
            /\ (60 <= score /\ score < 80) => Times(summary, ModerateSentence) = 1
            /\ score < 60 => Times(summary, CriticalSentence) = 1

\* a summary at the lower edge of the moderate range
C20_Witness ==
    /\ exec_summary # None
    /\ score_data[1].compliance_score = 60
    /\ Times(exec_summary[1], ModerateSentence) = 1

(***************************************************************************)
(* C21: the timeline block of the executive summary                        *)
(***************************************************************************)
TimelineHeader == "## Recommended Timeline\n\n"

LongTermLine == "- **Long-term (6-12 months):** Continuous improvement and monitoring\n\n"

\* the pieces of the summary after the timeline header
TimelineBlock(summary) ==
    SubSeq(summary, Position(summary, TimelineHeader) + 1, Len(summary))

\* the timeline lines that speak of a severity bucket; none speaks of low
BucketLines(bucket) ==
    CASE bucket = "critical" ->
           { "- **Immediate (0-30 days):** Address critical security gaps\n" }
      [] bucket = "high" ->
           { "- **Short-term (1-3 months):** Implement high-priority improvements\n" }
      [] bucket = "medium" ->
           { "- **Medium-term (3-6 months):** Complete medium-priority enhancements\n" }
      [] OTHER -> {}

BucketEmitted(summary, bucket) ==
    \E i \in 1..Len(TimelineBlock(summary)) :
       TimelineBlock(summary)[i] \in BucketLines(bucket)

EndsWithLongTerm(summary) ==
    /\ Position(summary, TimelineHeader) # 0
    /\ TimelineBlock(summary) # <<>>
    /\ summary[Len(summary)] = LongTermLine

\* C21 as stated: for every one of the four severity buckets, the bucket's
\* line is in the timeline block exactly when the bucket's count is positive,
\* and the block ends with the long-term-monitoring line.
C21_EveryBucketHasItsLine ==
    exec_summary # None =>
        /\ \A bucket \in {"critical", "high", "medium", "low"} :
              BucketEmitted(exec_summary[1], bucket)
                 <=> score_data[1].breakdown[bucket] > 0
        /\ EndsWithLongTerm(exec_summary[1])

\* C21 amended: the critical, high and medium buckets each have a line that is
\* in the timeline block exactly when the bucket's count is positive, and it is
\* there once; the low bucket has no line whatever its count; the block always
\* ends with the long-term-monitoring line.
C21_TimelineLinesByCount ==
    exec_summary # None =>
        LET summary == exec_summary[1]
            breakdown == score_data[1].breakdown
        IN  /\ \A bucket \in {"critical", "high", "medium"} :
                  /\ BucketEmitted(summary, bucket) <=> breakdown[bucket] > 0
                  /\ \A line \in BucketLines(bucket) :
                        Times(TimelineBlock(summary), line)
                           = (IF breakdown[bucket] > 0 THEN 1 ELSE 0)
            /\ ~BucketEmitted(summary, "low")
            /\ Len(TimelineBlock(summary))
                  = 1 + Cardinality({ bucket \in {"critical", "high", "medium"} :
                                         breakdown[bucket] > 0 })
            /\ EndsWithLongTerm(summary)

\* a summary of a text with low and medium markers only: one bucket line
C21_Witness ==
    /\ exec_summary # None
    /\ score_data[1].breakdown.low > 0
    /\ score_data[1].breakdown.medium > 0
    /\ score_data[1].breakdown.critical = 0
    /\ Len(TimelineBlock(exec_summary[1])) = 2

(***************************************************************************)
(* C22: two calls of ExecutiveSummary.generate with the same arguments     *)
(***************************************************************************)
\* both calls were made on the scored text
CalledTwice == exec_summary # None /\ prev_summary # None

\* the text that follows "**Date:** " in a summary
DateOf(summary) == summary[Position(summary, "**Date:** ") + 1]

\* the summary with the text of its date line taken out
WithoutDate(summary) ==
    [i \in 1..Len(summary) |->
        IF i = Position(summary, "**Date:** ") + 1 THEN "" ELSE summary[i]]

\* C22 as stated: two calls with the same analysis text and the same score
\* return the same string, whenever they are made.
C22_GenerateIsPure ==
    CalledTwice => exec_summary = prev_summary

\* C22 amended: two calls with the same analysis text and the same score return
\* strings that are the same apart from the date line, which holds the day of
\* the call, so the strings are the same exactly when the calls are made on the
\* same day; and a call changes nothing but its return value.
C22_SameApartFromDate ==
    /\ [](CalledTwice =>
            /\ WithoutDate(exec_summary[1]) = WithoutDate(prev_summary[1])
            /\ DateOf(exec_summary[1]) = strftime_B_d_Y(today)
            /\ DateOf(prev_summary[1]) \in { strftime_B_d_Y(date) : date \in Dates }
            /\ (exec_summary = prev_summary)
                  <=> (DateOf(exec_summary[1]) = DateOf(prev_summary[1])))
    /\ [][exec_summary' # exec_summary =>
            UNCHANGED <<gap_analysis_text, score_data, prev_data, recased_from,
                        today, reported, pipeVars, exportVars>>]_vars

\* two calls on a text that names a priority, a day apart: the returned
\* strings differ
C22_Witness ==
    /\ CalledTwice
    /\ exec_summary # prev_summary
    /\ DateOf(prev_summary[1]) = "November 01, 2026"
    /\ DateOf(exec_summary[1]) = "December 25, 2026"
    /\ gap_analysis_text = FragPriority

(***************************************************************************)
(* C23: the recommendations paragraph of the executive summary             *)
(***************************************************************************)
ExtraSentence == "Critical gaps requiring immediate attention have been identified. "

ReferSentence ==
    "Please refer to the detailed gap analysis and remediation plan for specific actions.\n\n"

\* the analysis text names "top 5" or "priority" in some letter case
NamesPriorities(text) ==
    \/ OccursAnyCase(text, <<"t","o","p"," ","5">>)
    \/ OccursAnyCase(text, <<"p","r","i","o","r","i","t","y">>)

\* C23: the summary holds the sentence about critical gaps requiring immediate
\* attention exactly when the analysis text contains "top 5" or "priority" in
\* any letter case, and then once, right before the sentence that refers to
\* the detailed analysis and remediation plan, which is always there once.
C23_ExtraSentenceIffPriorities ==
    exec_summary # None =>
        LET summary == exec_summary[1]
        IN  /\ Times(summary, ExtraSentence)
                  = (IF NamesPriorities(gap_analysis_text) THEN 1 ELSE 0)
            /\ Times(summary, ReferSentence) = 1
            /\ Times(summary, ExtraSentence) = 1
                  => Position(summary, ExtraSentence) + 1 = Position(summary, ReferSentence)

\* a summary of "Top 5": the extra sentence is there although the text is not
\* in lower case
C23_Witness ==
    /\ exec_summary # None
    /\ gap_analysis_text = FragTopFive
    /\ Times(exec_summary[1], ExtraSentence) = 1

(***************************************************************************)
(* C24: the mode chosen from the command line                              *)
(***************************************************************************)
\* the flag is on the command line, with whatever value
Given(flag) == flag # None

PolicyQuestion == "Enter path to your policy file"

ReferenceQuestion == "Enter path to reference framework file"

\* C24 as stated: the run is in batch mode exactly when --batch and both path
\* flags are given on the command line, and in interactive mode otherwise.
C24_BatchIffFlagsGiven ==
    args # None =>
        /\ mode = "batch" <=> /\ args[1].batch
                              /\ Given(args[1].user_policy)
                              /\ Given(args[1].reference)
        /\ mode \in {"batch", "interactive"}

\* C24 amended: the run is in batch mode exactly when --batch is given and
\* both path flags are given with a non-empty value; in every other case it is
\* in interactive mode. Interactive mode asks for the policy path first and,
\* once the policy is loaded, for the reference path; batch mode asks nothing.
C24_BatchIffPathsNonEmpty ==
    args # None =>
        /\ mode = "batch" <=> /\ args[1].batch
                              /\ Given(args[1].user_policy) /\ args[1].user_policy[1] # ""
                              /\ Given(args[1].reference) /\ args[1].reference[1] # ""
        /\ mode \in {"batch", "interactive"}
        /\ mode = "batch" => prompted = <<>> /\ pc # "i_load_policy"
        /\ mode = "interactive" =>
              /\ pc # "b_load"
              /\ prompted = IF pc = "i_load_policy" THEN <<>>
                            ELSE IF pc = "i_load_reference" \/ falsy(user_policy_text)
                            THEN <<PolicyQuestion>>
                            ELSE <<PolicyQuestion, ReferenceQuestion>>

\* --batch with both path flags, one of them empty: the run is interactive and
\* has asked for both paths
C24_Witness ==
    /\ args # None
    /\ args[1].batch
    /\ args[1].user_policy = Some("")
    /\ args[1].reference = Some("policy.md")
    /\ mode = "interactive"
    /\ prompted = <<PolicyQuestion, ReferenceQuestion>>

(***************************************************************************)
(* C25: path resolution and format routing of extract_text                 *)
(***************************************************************************)
\* the places extract_text may take the file from: the path as given, then its
\* final name component in each search directory, in list order
Candidates(path) ==
    <<path>> \o [i \in 1..Len(DocumentLoader.search_dirs) |->
                   [dir |-> DocumentLoader.search_dirs[i], name |-> path.name]]

Existing(path) == { i \in 1..Len(Candidates(path)) : Candidates(path)[i] \in files }

\* the extension of a file name: from its last dot on, when that dot is
\* neither the first nor the last character
Extension(name) ==
    IF /\ \E i \in 2..(Len(name) - 1) : name[i] = "."
       /\ name[Len(name)] # "."
    THEN LET i == CHOOSE d \in 2..(Len(name) - 1) :
                     /\ name[d] = "."
                     /\ \A e \in (d + 1)..Len(name) : name[e] # "."
         IN  SubSeq(name, i, Len(name))
    ELSE <<>>

EqualAnyCase(s, kw) ==
    /\ Len(s) = Len(kw)
    /\ \A k \in 1..Len(kw) : s[k] = kw[k] \/ <<s[k], kw[k]>> \in CasePairs

SupportedExtension(ext) ==
    \E kw \in { <<".","p","d","f">>, <<".","t","x","t">>, <<".","m","d">>,
                <<".","m","a","r","k","d","o","w","n">> } : EqualAnyCase(ext, kw)

Printed(call, line) == \E i \in 1..Len(call.printed) : call.printed[i] = line

\* C25: extract_text takes the path as given when it exists, otherwise the
\* first search directory, in list order, that holds a file of the path's
\* final name; it fails with "File not found" exactly when none of these
\* exists; and for a resolved file it fails with "Unsupported file format"
\* exactly when the extension is, in no letter case, one of .pdf, .txt, .md,
\* .markdown. Either failure returns None.
C25_ResolutionAndFormat ==
    load_call # None =>
        LET call == load_call[1]
            existing == Existing(call.path)
            first == CHOOSE i \in existing : \A j \in existing : i <= j
        IN  /\ call.resolved = None <=> existing = {}
            /\ Printed(call, "Error: File not found") <=> existing = {}
            /\ existing # {} =>
                  /\ call.resolved = Some(Candidates(call.path)[first])
                  /\ Printed(call, "Error: Unsupported file format")
                        <=> ~SupportedExtension(Extension(call.resolved[1].name))
            /\ existing = {} => ~Printed(call, "Error: Unsupported file format")
            /\ (Printed(call, "Error: File not found")
                  \/ Printed(call, "Error: Unsupported file format"))
                  => call.returned = None

\* p.PDF asked for in a directory where it is not, while it is in the
\* reference directory and in the working directory: the one of the reference
\* directory is read, as a PDF
C25_Witness ==
    /\ load_call # None
    /\ load_call[1].path = [dir |-> "elsewhere", name |-> <<"p",".","P","D","F">>]
    /\ files = { [dir |-> REFERENCE_DIR, name |-> <<"p",".","P","D","F">>],
                 [dir |-> cwd, name |-> <<"p",".","P","D","F">>] }
    /\ load_call[1].resolved = Some([dir |-> REFERENCE_DIR, name |-> <<"p",".","P","D","F">>])
    /\ load_call[1].suffix = Some(<<".","p","d","f">>)
    /\ load_call[1].returned # None

(***************************************************************************)
(* C26, C30: text cleaning                                                 *)
(***************************************************************************)
\* the lines of a text, read off from its first newline on
RECURSIVE LinesOf(_)
LinesOf(text) ==
    IF \A i \in 1..Len(text) : text[i] # "\n" THEN <<text>>
    ELSE LET i == CHOOSE n \in 1..Len(text) :
                     /\ text[n] = "\n"
                     /\ \A m \in 1..(n - 1) : text[m] # "\n"
         IN  <<SubSeq(text, 1, i - 1)>> \o LinesOf(SubSeq(text, i + 1, Len(text)))

\* a line that is empty or holds whitespace only
Blank(line) == \A i \in 1..Len(line) : line[i] \in {" ", "\t", "\r", "\f"}

\* a line without the whitespace at its two ends, one character at a time
RECURSIVE Trim(_)
Trim(line) ==
    IF line = <<>> THEN <<>>
    ELSE IF Blank(<<line[1]>>) THEN Trim(Tail(line))
    ELSE IF Blank(<<line[Len(line)]>>) THEN Trim(SubSeq(line, 1, Len(line) - 1))
    ELSE line

NonBlankLines(lines) == SelectSeq(lines, LAMBDA line : ~Blank(line))

\* C26: cleaning collapses each run of consecutive blank lines to a single
\* empty line. The output never has two consecutive empty lines, no output
\* line begins or ends with whitespace, the non-blank lines of the input are
\* the non-empty lines of the output, in the same order and without the
\* whitespace at their ends, and the output has one empty line for each run of
\* blank input lines, where the run was.
C26_BlankRunsCollapse ==
    cleaned_text # None =>
        LET input == LinesOf(raw_text)
            output == LinesOf(cleaned_text[1])
            kept == { k \in 1..Len(input) :
                         ~(Blank(input[k]) /\ k > 1 /\ Blank(input[k - 1])) }
            nth(j) == CHOOSE k \in kept : Cardinality({ m \in kept : m < k }) = j - 1
        IN  /\ \A k \in 1..(Len(output) - 1) : ~(output[k] = <<>> /\ output[k + 1] = <<>>)
            /\ \A k \in 1..Len(output) :
                  \/ output[k] = <<>>
                  \/ ~Blank(<<output[k][1]>>) /\ ~Blank(<<output[k][Len(output[k])]>>)
            /\ Len(NonBlankLines(output)) = Len(NonBlankLines(input))
            /\ \A k \in 1..Len(NonBlankLines(input)) :
                  NonBlankLines(output)[k] = Trim(NonBlankLines(input)[k])
            /\ Len(output) = Cardinality(kept)
            /\ \A j \in 1..Len(output) : output[j] = Trim(input[nth(j)])

\* "a", a run of one whitespace-only and one empty line, "b": the run is one
\* empty line in the output
C26_Witness ==
    /\ cleaned_text # None
    /\ raw_text = <<"a", "\n", " ", "\n", "\n", "b">>
    /\ cleaned_text[1] = <<"a", "\n", "\n", "b">>

\* C30: cleaning is idempotent: cleaning the cleaned text returns the cleaned
\* text.
C30_CleaningIsIdempotent ==
    recleaned_text # None => recleaned_text = cleaned_text

\* a text that cleaning changes, cleaned twice
C30_Witness ==
    /\ recleaned_text # None
    /\ raw_text = <<" ", "a", " ", "\n", " ", "\n">>
    /\ cleaned_text[1] # raw_text
    /\ recleaned_text[1] = <<"a", "\n">>

(***************************************************************************)
(* C27, C28: the complete report of a pipeline run                         *)
(***************************************************************************)
\* _export_complete_report ran with an output directory it can write to
ReportExported == reports # None /\ reports[1].writable

\* the narrative report of the run was written
NarrativeWritten ==
    /\ reports[1].markdown.printed = "Markdown exported to"
    /\ reports[1].markdown.file # None

\* the narrative report has a section opened by header that holds body
\* verbatim, right after the header
HoldsSection(header, body) ==
    LET text == reports[1].markdown.file[1]
        at == Position(text, header)
    IN  /\ at # 0
        /\ at + Len(body) <= Len(text)
        /\ SubSeq(text, at + 1, at + Len(body)) = body

\* C27: when the complete report is exported after a successful gap analysis,
\* the narrative report is written with the model-identifier line and with a
\* Gap Analysis section that holds the stored analysis text verbatim: the
\* collection handed to the narrative exporter has the analysis text and the
\* model identifier under the keys the exporter reads.
C27_NarrativeHoldsModelAndAnalysis ==
    (ReportExported /\ "gap_analysis" \in DOMAIN results) =>
        /\ {"analysis", "model_used"} \subseteq DOMAIN exported[1]
        /\ NarrativeWritten
        /\ Position(reports[1].markdown.file[1], "**AI Model:** ") # 0
        /\ HoldsSection("## Gap Analysis\n\n", results["gap_analysis"].analysis)

\* C28: in interactive mode, when the user accepts the export and the
\* collection holds a gap-analysis result and a remediation result, the
\* structured and the narrative report are both written, and the narrative
\* report has the remediation text in its Remediation Plan section.
C28_InteractiveExportWritesBoth ==
    (/\ ReportExported
     /\ mode = "interactive"
     /\ {"gap_analysis", "remediation"} \subseteq DOMAIN results) =>
        /\ reports[1].json.printed = "JSON exported to"
        /\ reports[1].json.file # None
        /\ NarrativeWritten
        /\ HoldsSection("## Remediation Plan\n\n", results["remediation"].remediation)

(***************************************************************************)
(* C29: a document whose cleaned text is empty                             *)
(***************************************************************************)
\* extract_text found the policy, read it, and returned the empty text
PolicyTextEmpty == Len(stages) >= 1 /\ user_policy_text = Some(<<>>)

\* extract_text found the reference, read it, and returned the empty text
ReferenceTextEmpty == Len(stages) >= 2 /\ reference_text = Some(<<>>)

\* the console line of a load failure at the step the run is in
LoadFailureLine ==
    IF mode = "batch" THEN "Failed to load documents. Exiting."
    ELSE IF Len(stages) = 1 THEN "Failed to load user policy. Exiting."
    ELSE "Failed to load reference framework. Exiting."

\* C29: a document that was found and read but whose cleaned text is empty
\* ends the run as a failed extraction does, in both modes: the load-failure
\* line of the step is the only line on the console, the run is over, no judge
\* was created, no request was made, nothing is in the result collection and
\* nothing was exported; in interactive mode an empty policy also means the
\* reference is never asked for.
C29_EmptyTextIsLoadFailure ==
    (PolicyTextEmpty \/ ReferenceTextEmpty) =>
        /\ pc = "done"
        /\ reported = <<LoadFailureLine>>
        /\ judge = None
        /\ llm_requests = 0
        /\ results = EmptyDict
        /\ exported = None /\ reports = None
        /\ (mode = "interactive" /\ PolicyTextEmpty) =>
              reference_text = None /\ stages = <<"extract">>
        /\ (mode = "interactive" /\ ReferenceTextEmpty) => stages = <<"extract", "extract">>
        /\ mode = "batch" => stages = <<"extract", "extract">>

\* a batch run whose policy has text and whose reference is empty
C29_Witness ==
    /\ mode = "batch"
    /\ user_policy_text = Some(<<"p","o","l","i","c","y">>)
    /\ ReferenceTextEmpty
    /\ reported = <<"Failed to load documents. Exiting.">>
    /\ pc = "done"

====
